---- MODULE Spec2Model ----
(***************************************************************************)
(* A model of pracstro's time module (src/src/time.rs): the Angle and Date *)
(* value types, their constructors, readers and operators.                 *)
(*                                                                         *)
(* The code computes on f64.  TLC's integers are 32 bits wide, so an f64   *)
(* is modelled as a record [s, m, e] standing for (-1)^s * m * 2^e, where  *)
(* m is a 53-bit natural held as a little-endian sequence of 15-bit limbs. *)
(* Every arithmetic operator below returns the IEEE-754 binary64 result    *)
(* (round to nearest, ties to even) of the exact operation, so that a      *)
(* model value is bit for bit the value the compiled code holds.           *)
(* Infinities, NaN, subnormals and the sign of zero are outside the model: *)
(* the inputs are finite and of moderate magnitude.                        *)
(***************************************************************************)
EXTENDS Integers, Sequences, FiniteSets, TLC

----------------------------------------------------------------------------
(* Wide naturals: <<l1, ..., ln>> is l1 + l2*B + ... + ln*B^(n-1), ln # 0. *)

B == 2^15

Pow2(k) == 2^k

RECURSIVE WNorm(_)
WNorm(a) ==
    IF a = <<>> THEN <<>>
    ELSE IF a[Len(a)] = 0 THEN WNorm(SubSeq(a, 1, Len(a) - 1))
    ELSE a

WLimb(a, i) == IF i >= 1 /\ i <= Len(a) THEN a[i] ELSE 0

RECURSIVE WFromInt(_)
WFromInt(n) == IF n = 0 THEN <<>> ELSE <<n % B>> \o WFromInt(n \div B)

RECURSIVE WToInt(_)
WToInt(a) == IF a = <<>> THEN 0 ELSE a[1] + B * WToInt(Tail(a))

RECURSIVE WAddC(_, _, _, _)
WAddC(a, b, i, c) ==
    IF i > Len(a) /\ i > Len(b)
    THEN (IF c = 0 THEN <<>> ELSE <<c>>)
    ELSE LET x == WLimb(a, i) + WLimb(b, i) + c
         IN  <<x % B>> \o WAddC(a, b, i + 1, x \div B)

WAdd(a, b) == WAddC(a, b, 1, 0)

RECURSIVE WSubC(_, _, _, _)
WSubC(a, b, i, c) ==
    IF i > Len(a) THEN <<>>
    ELSE LET x == WLimb(a, i) - WLimb(b, i) - c
         IN  <<x % B>> \o WSubC(a, b, i + 1, IF x < 0 THEN 1 ELSE 0)

(* a - b for a >= b *)
WSub(a, b) == WNorm(WSubC(a, b, 1, 0))

RECURSIVE WCmpAt(_, _, _)
WCmpAt(a, b, i) ==
    IF i = 0 THEN 0
    ELSE IF a[i] < b[i] THEN -1
    ELSE IF a[i] > b[i] THEN 1
    ELSE WCmpAt(a, b, i - 1)

(* -1, 0, 1 as a < b, a = b, a > b *)
WCmp(a, b) ==
    IF Len(a) < Len(b) THEN -1
    ELSE IF Len(a) > Len(b) THEN 1
    ELSE WCmpAt(a, b, Len(a))

RECURSIVE WMulSC(_, _, _, _)
WMulSC(a, d, i, c) ==
    IF i > Len(a) THEN (IF c = 0 THEN <<>> ELSE <<c>>)
    ELSE LET x == a[i] * d + c
         IN  <<x % B>> \o WMulSC(a, d, i + 1, x \div B)

(* a * d for a limb d < B *)
WMulS(a, d) == IF d = 0 THEN <<>> ELSE WMulSC(a, d, 1, 0)

WShlLimbs(a, q) == IF a = <<>> THEN <<>> ELSE [i \in 1..q |-> 0] \o a

RECURSIVE WMulAt(_, _, _)
WMulAt(a, b, j) ==
    IF j > Len(b) THEN <<>>
    ELSE WAdd(WShlLimbs(WMulS(a, b[j]), j - 1), WMulAt(a, b, j + 1))

WMul(a, b) == WMulAt(a, b, 1)

BitLen(n) == Cardinality({i \in 0..30 : n >= 2^i})

WBits(a) == IF a = <<>> THEN 0 ELSE 15 * (Len(a) - 1) + BitLen(a[Len(a)])

(* a * 2^k *)
WShl(a, k) == WShlLimbs(WMulS(a, Pow2(k % 15)), k \div 15)

(* floor(a / 2^k) *)
WShr(a, k) ==
    LET q == k \div 15
        p == Pow2(k % 15)
        x == IF q >= Len(a) THEN <<>> ELSE SubSeq(a, q + 1, Len(a))
    IN  WNorm([i \in 1..Len(x) |-> (x[i] \div p) + (WLimb(x, i + 1) % p) * (B \div p)])

WOdd(a) == a # <<>> /\ a[1] % 2 = 1

(* Long division of r * 2^n by d for r < d, up to three quotient bits a     *)
(* step: acc starts at 1 and takes the bits in from the right until it     *)
(* reaches top = 2^n; the result is <<the n bits as a number, the          *)
(* remainder>>. A step of w bits takes the digit j < 2^w, the number of    *)
(* multiples d, 2d, .. of d that are at most r * 2^w.                      *)
RECURSIVE WDivBits(_, _, _, _)
WDivTake(rw, d, acc, top, w, j) ==
    WDivBits(IF j = 0 THEN rw ELSE WSub(rw, WMulS(d, j)), d, w * acc + j, top)

WDivDigit(rw, d, acc, top, w) ==
    WDivTake(rw, d, acc, top, w,
             Cardinality({j \in 1..(w - 1) : WCmp(WMulS(d, j), rw) <= 0}))

WDivBits(r, d, acc, top) ==
    IF acc >= top THEN <<acc - top, r>>
    ELSE IF 4 * acc < top THEN WDivDigit(WMulS(r, 8), d, acc, top, 8)
    ELSE IF 2 * acc < top THEN WDivDigit(WMulS(r, 4), d, acc, top, 4)
    ELSE WDivDigit(WMulS(r, 2), d, acc, top, 2)

(* k limbs of quotient: <<the limbs q followed by the earlier ones, the remainder>> *)
RECURSIVE WDivLimbs(_, _, _, _)
WDivNext(t, d, q, k) ==
    CASE t[1] >= 0 -> WDivLimbs(t[2], d, <<t[1]>> \o q, k - 1)
WDivLimbs(r, d, q, k) ==
    IF k = 0 THEN <<q, r>>
    ELSE WDivNext(WDivBits(r, d, 1, B), d, q, k)

(* k doublings of r modulo d, for r < d *)
RECURSIVE WDblMod(_, _, _)
WDblMod(r, d, k) ==
    IF k = 0 \/ r = <<>> THEN r
    ELSE IF k >= 15 THEN WDblMod(WDivBits(r, d, 1, B)[2], d, k - 15)
    ELSE WDivBits(r, d, 1, Pow2(k))[2]

----------------------------------------------------------------------------
(* binary64 *)

Zero == [s |-> 0, m |-> <<>>, e |-> 0]

IsZero(x) == x.m = <<>>

(* x is an f64 of the model; asking so evaluates x before it is used *)
IsF64(x) == x.s \in {0, 1}

(* the binary64 nearest to (-1)^s * M * 2^E, ties to even: a mantissa of  *)
(* L <= 53 bits is exact; a longer one is cut to q = its top 53 bits and   *)
(* rounded up when the part cut off is above half, or half with q odd      *)
FRoundFit(s, q, E) ==
    IF WBits(q) = 54
    THEN [s |-> s, m |-> WShr(q, 1), e |-> E + 1]
    ELSE [s |-> s, m |-> q, e |-> E]

FRoundUp(s, q, E, c) ==
    CASE c \in {-1, 0, 1} ->
    FRoundFit(s, IF c > 0 \/ (c = 0 /\ WOdd(q)) THEN WAdd(q, <<1>>) ELSE q, E)

FRoundLow(M, qk) == CASE Len(qk) >= 0 -> WSub(M, qk)

FRoundHalf(low, k) == CASE Len(low) >= 0 -> WCmp(WShl(low, 1), WShl(<<1>>, k))

FRoundCut(s, M, E, k, q) ==
    CASE Len(q) >= 0 -> FRoundUp(s, q, E + k, FRoundHalf(FRoundLow(M, WShl(q, k)), k))

FRoundBits(s, M, E, L) ==
    IF L <= 53
    THEN [s |-> s, m |-> WShl(M, 53 - L), e |-> E - (53 - L)]
    ELSE FRoundCut(s, M, E, L - 53, WShr(M, L - 53))

FRound(s, M, E) == IF M = <<>> THEN Zero ELSE FRoundBits(s, M, E, WBits(M))

(* n / 2^k for an integer n: exact when |n| < 2^53 *)
Dy(n, k) == FRound(IF n < 0 THEN 1 ELSE 0, WFromInt(IF n < 0 THEN -n ELSE n), -k)

FInt(n) == Dy(n, 0)

FNeg(x) == IF IsZero(x) THEN x ELSE [x EXCEPT !.s = 1 - x.s]

FAbs(x) == [x EXCEPT !.s = 0]

(* |x| against |y| *)
FCmpMag(x, y) ==
    IF IsZero(x) THEN (IF IsZero(y) THEN 0 ELSE -1)
    ELSE IF IsZero(y) THEN 1
    ELSE IF x.e < y.e THEN -1
    ELSE IF x.e > y.e THEN 1
    ELSE WCmp(x.m, y.m)

FCmp(x, y) ==
    IF x.s = 0 /\ y.s = 0 THEN FCmpMag(x, y)
    ELSE IF x.s = 1 /\ y.s = 1 THEN FCmpMag(y, x)
    ELSE IF IsZero(x) /\ IsZero(y) THEN 0
    ELSE IF x.s = 1 THEN -1 ELSE 1

FLt(x, y) == FCmp(x, y) < 0
FLe(x, y) == FCmp(x, y) <= 0
FGt(x, y) == FCmp(x, y) > 0
FGe(x, y) == FCmp(x, y) >= 0

FMul(x, y) ==
    IF IsZero(x) \/ IsZero(y) THEN Zero
    ELSE FRound((x.s + y.s) % 2, WMul(x.m, y.m), x.e + y.e)

(* x + y for x.e >= y.e, both nonzero *)
FAddAligned(x, y, a, c) ==
    IF x.s = y.s THEN FRound(x.s, WAdd(a, y.m), y.e)
    ELSE IF c = 0 THEN Zero
    ELSE IF c > 0 THEN FRound(x.s, WSub(a, y.m), y.e)
    ELSE FRound(y.s, WSub(y.m, a), y.e)

FAddShifted(x, y, a) == FAddAligned(x, y, a, WCmp(a, y.m))

FAddOrd(x, y) ==
    IF x.e - y.e > 64 THEN x
    ELSE FAddShifted(x, y, WShl(x.m, x.e - y.e))

FAdd(x, y) ==
    IF IsZero(x) THEN y
    ELSE IF IsZero(y) THEN x
    ELSE IF x.e >= y.e THEN FAddOrd(x, y) ELSE FAddOrd(y, x)

FSub(x, y) == FAdd(x, FNeg(y))

(* x / y from 61 bits of the quotient of the mantissas and a sticky bit *)
FDivRound(x, y, t) ==
    CASE t[1] # <<>> ->
    FRound((x.s + y.s) % 2,
           WAdd(WMulS(WNorm(t[1]), 2), IF t[2] = <<>> THEN <<>> ELSE <<1>>),
           x.e - y.e - 61)

FDivFrom(x, y, big) ==
    FDivRound(x, y, WDivLimbs(IF big THEN WSub(x.m, y.m) ELSE x.m, y.m,
                              <<IF big THEN 1 ELSE 0>>, 4))

FDiv(x, y) == IF IsF64(y) /\ IsZero(x) THEN Zero ELSE FDivFrom(x, y, WCmp(x.m, y.m) >= 0)

(* x % y: the remainder of the division truncated towards zero, sign of x (exact) *)
FRem(x, y) ==
    IF FCmpMag(x, y) < 0 THEN x
    ELSE LET r0 == IF WCmp(x.m, y.m) >= 0 THEN WSub(x.m, y.m) ELSE x.m
         IN  FRound(x.s, WDblMod(r0, y.m, x.e - y.e), y.e)

FTrunc(x) ==
    IF IsZero(x) \/ x.e >= 0 THEN x
    ELSE IF x.e <= -53 THEN Zero
    ELSE FRound(x.s, WShr(x.m, -x.e), 0)

FFract(x) == FSub(x, FTrunc(x))

(* the integer value of an integral x of small magnitude *)
FToInt(x) ==
    IF IsZero(x) THEN 0
    ELSE LET n == IF x.e >= 0 THEN WToInt(WShl(x.m, x.e)) ELSE WToInt(WShr(x.m, -x.e))
         IN  IF x.s = 1 THEN -n ELSE n

(* the decimal literal n/d *)
Lit(n, d) == FDiv(FInt(n), FInt(d))

----------------------------------------------------------------------------
(* f64 helpers of the standard library used by time.rs *)

(* std::f64::consts::PI = 0x400921FB54442D18 and TAU = 2 * PI *)
PI == [s |-> 0, m |-> <<11544, 10376, 2029, 201>>, e |-> -51]
TAU == [s |-> 0, m |-> <<11544, 10376, 2029, 201>>, e |-> -50]

(* f64::to_radians is self * (PI / 180.0), f64::to_degrees is self * (180.0 / PI) *)
(* PI / 180.0 = 0.017453292519943295 and 180.0 / PI = 57.29577951308232 *)
RADS_PER_DEG == [s |-> 0, m |-> <<7481, 17573, 32026, 142>>, e |-> -58]
PIS_IN_180 == [s |-> 0, m |-> <<16888, 13511, 6000, 229>>, e |-> -47]
to_radians(x) == FMul(x, RADS_PER_DEG)
to_degrees(x) == FMul(x, PIS_IN_180)

(* 60.0 and 15.0 *)
Sixty == [s |-> 0, m |-> <<0, 0, 0, 240>>, e |-> -47]
Fifteen == [s |-> 0, m |-> <<0, 0, 0, 240>>, e |-> -49]

(* `as u8`, `as i16` of an f64: truncation towards zero, saturating at the type's range *)
Clamp(v, lo, hi) == IF v < lo THEN lo ELSE IF v > hi THEN hi ELSE v

AsInt(x, lo, hi) == Clamp(FToInt(FTrunc(x)), lo, hi)

AsU8(x) == AsInt(x, 0, 255)
AsI16(x) == AsInt(x, -32768, 32767)

----------------------------------------------------------------------------
(* Angle(f64): the value is the f64 itself *)

radians(a) == a

(* the remainder left as `%` gives it, negative for a negative x *)
lpr_unfixed(z, y) == z

(* z + if z < 0.0 { y } else { 0.0 } *)
lpr_fix(z, y) == FAdd(z, IF FLt(z, Zero) THEN y ELSE Zero)

lpr(x, y) == lpr_fix(FRem(x, y), y)

from_radians(x) == CASE IsF64(x) -> lpr(x, TAU)

to_latitude(a) == IF FGt(radians(a), PI) THEN FSub(radians(a), TAU) ELSE a

degrees(a) == to_degrees(radians(a))

from_degrees(x) == from_radians(to_radians(x))

turns(a) == FDiv(radians(a), TAU)

from_turns(x) == from_radians(FMul(x, TAU))

decimal(a) == FDiv(degrees(a), Fifteen)

from_decimal(x) == from_degrees(FMul(x, Fifteen))

(* (y.trunc() as T, (y.fract() * 60.0).trunc() as u8, (y.fract() * 60.0).fract() * 60.0) *)
SexagesimalOf(whole, f, lo, hi) ==
    <<AsInt(whole, lo, hi), AsU8(FTrunc(f)), FMul(FFract(f), Sixty)>>

Sexagesimal(y, lo, hi) == SexagesimalOf(FTrunc(y), FMul(FFract(y), Sixty), lo, hi)

clock(a) == Sexagesimal(decimal(a), 0, 255)

from_clock(h, m, s) ==
    from_decimal(FAdd(FInt(h), FDiv(FAdd(FInt(m), FDiv(s, Sixty)), Sixty)))

degminsec(a) == Sexagesimal(degrees(a), -32768, 32767)

from_degminsec(d, m, s) ==
    from_degrees(FAdd(FInt(d), FDiv(FAdd(FInt(m), FDiv(s, Sixty)), Sixty)))

inverse(a) == from_radians(FSub(TAU, radians(a)))

(* an equality that compares the arcseconds too *)
eq_with_seconds(a, b) == degminsec(a) = degminsec(b)

(* an equality that compares the degrees only *)
eq_degrees_only(a, b) == degminsec(a)[1] = degminsec(b)[1]

(* impl PartialEq for Angle *)
SameDegMin(x, y) == x[1] = y[1] /\ x[2] = y[2]

eq(a, b) == SameDegMin(degminsec(a), degminsec(b))

add(a, x) == CASE IsF64(a) /\ IsF64(x) -> from_radians(FAdd(radians(a), radians(x)))
sub(a, x) == CASE IsF64(a) /\ IsF64(x) -> from_radians(FSub(radians(a), radians(x)))
mul(a, x) == CASE IsF64(a) /\ IsF64(x) -> from_radians(FMul(radians(a), x))
div(a, x) == CASE IsF64(a) /\ IsF64(x) -> from_radians(FDiv(radians(a), x))

----------------------------------------------------------------------------
(* Date(f64): the value is the Julian day number *)

julian(d) == d

from_julian(x) == x

centuries(d) == FDiv(FSub(julian(d), FInt(2451545)), FInt(36525))

(* the f64 nearest to the literals 122.2 and 30.6001 *)
F122_2 == [s |-> 0, m |-> <<19661, 6553, 13107, 244>>, e |-> -46]
F30_6001 == [s |-> 0, m |-> <<21601, 20132, 26240, 244>>, e |-> -48]

(* Date::calendar, one definition for each let of the code; Dy(n, k) is    *)
(* n / 2^k: 0.5, 1867216.25, 36524.25, 365.25, 13.5 and 2.5                *)

(* calendar() takes the Gregorian branch exactly when i > 2_299_160.0 *)
calendar_gregorian(i) == FGt(i, FInt(2299160))

calendar_a(i) == FTrunc(FDiv(FSub(i, Dy(7468865, 2)), Dy(146097, 2)))

calendar_corrected(i, a) == CASE IsF64(a) -> FSub(FAdd(FAdd(i, FInt(1)), a), FTrunc(FDiv(a, FInt(4))))

calendar_b(i) ==
    FAdd(IF calendar_gregorian(i) THEN calendar_corrected(i, calendar_a(i)) ELSE i,
         FInt(1524))

(* (y as i64, m as u8, d as u8, Angle::from_turns(d.fract())) *)
calendar_ymd(d, m, day) ==
    CASE IsF64(m) /\ IsF64(day) ->
    <<FToInt(FTrunc(IF FGt(m, Dy(5, 1)) THEN FSub(d, FInt(4716)) ELSE FSub(d, FInt(4715)))),
      AsU8(m), AsU8(day), from_turns(FFract(day))>>

calendar_g(b, f, d, e, g) ==
    CASE IsF64(g) -> calendar_ymd(d,
                 IF FLt(g, Dy(27, 1)) THEN FSub(g, FInt(1)) ELSE FSub(g, FInt(13)),
                 FSub(FAdd(FSub(b, e), f), FTrunc(FMul(F30_6001, g))))

calendar_e(b, f, d, e) == CASE IsF64(e) -> calendar_g(b, f, d, e, FTrunc(FDiv(FSub(b, e), F30_6001)))

calendar_d(b, f, d) == CASE IsF64(d) -> calendar_e(b, f, d, FTrunc(FMul(Dy(1461, 2), d)))

calendar_bf(b, f) == CASE IsF64(b) /\ IsF64(f) -> calendar_d(b, f, FTrunc(FDiv(FSub(b, F122_2), Dy(1461, 2))))

calendar_j(j) == CASE IsF64(j) -> calendar_bf(calendar_b(FTrunc(j)), FFract(j))

(* (year, month, day, time of day) *)
calendar(dt) == calendar_j(FAdd(julian(dt), Dy(1, 1)))

(* the term from_calendar adds for the year it computes with (i64 arithmetic) *)
GregorianTerm(year) == IF year >= 1582 THEN 2 - (year \div 100) + (year \div 400) ELSE 0

(* the (year, month) from_calendar computes with *)
ShiftedYear(y, m) == IF m < 3 THEN y - 1 ELSE y
ShiftedMonth(m) == IF m < 3 THEN m + 12 ELSE m

(* term + (365.25 * year - 0.75 or 0).trunc() + (30.6001 * (month + 1)).trunc() *)
(*      + day + t.turns() + 1_720_994.5, added from left to right               *)
from_calendar_sum(year, month, day, t) ==
    FAdd(FAdd(FAdd(FAdd(FAdd(
      FInt(GregorianTerm(year)),
      FTrunc(FSub(FMul(Dy(1461, 2), FInt(year)), IF year < 0 THEN Dy(3, 2) ELSE Zero))),
      FTrunc(FMul(F30_6001, FInt(month + 1)))),
      FInt(day)),
      turns(t)),
      Dy(3441989, 1))

from_calendar(y, m, day, t) ==
    from_julian(from_calendar_sum(ShiftedYear(y, m), ShiftedMonth(m), day, t))

time(dt) == calendar(dt)[4]

from_time_of(c, t) == from_calendar(c[1], c[2], c[3], t)

from_time(dt, t) == from_time_of(calendar(dt), t)

(* 2440587.5 is Dy(4881175, 1) *)
unix(dt) == FMul(FSub(julian(dt), Dy(4881175, 1)), FInt(86400))

(* from_unix without the Julian day of the Unix epoch *)
from_unix_no_epoch(t) == from_julian(FDiv(t, FInt(86400)))

from_unix(t) == from_julian(FAdd(FDiv(t, FInt(86400)), Dy(4881175, 1)))

(* f64 NaN, which asin and acos return outside [-1, 1]; every operation on it gives NaN *)
NaN == [s |-> 0, m |-> <<>>, e |-> 1024]

IsNaN(x) == x.e = 1024

(* ---- libm: the values of the transcendental functions ---- *)

(* f64::sin, as libm returns it, on the arguments the specifications reach *)
f64_sin(x) ==
    CASE x = [s |-> 1, m |-> <<28385, 27122, 19457, 250>>, e |-> -19] ->
         [s |-> 0, m |-> <<6184, 21807, 20717, 153>>, e |-> -58]
      [] x = [s |-> 1, m |-> <<23728, 27122, 19457, 250>>, e |-> -19] ->
         [s |-> 0, m |-> <<13246, 17063, 24531, 161>>, e |-> -59]
      [] x = [s |-> 1, m |-> <<23727, 27122, 19457, 250>>, e |-> -19] ->
         [s |-> 0, m |-> <<9573, 18698, 23507, 161>>, e |-> -59]
      [] x = [s |-> 1, m |-> <<10409, 6715, 17233, 192>>, e |-> -28] ->
         [s |-> 1, m |-> <<10885, 2559, 20585, 249>>, e |-> -53]
      [] x = [s |-> 1, m |-> <<14250, 6109, 17233, 192>>, e |-> -28] ->
         [s |-> 1, m |-> <<11984, 16577, 4586, 253>>, e |-> -53]
      [] x = [s |-> 1, m |-> <<31660, 6089, 17233, 192>>, e |-> -28] ->
         [s |-> 1, m |-> <<26680, 24541, 7534, 253>>, e |-> -53]
      [] x = [s |-> 1, m |-> <<30994, 6089, 17233, 192>>, e |-> -28] ->
         [s |-> 1, m |-> <<7858, 26291, 7537, 253>>, e |-> -53]
      [] x = [s |-> 1, m |-> <<14582, 3251, 17233, 192>>, e |-> -28] ->
         [s |-> 1, m |-> <<3338, 3266, 30630, 250>>, e |-> -53]
      [] x = [s |-> 1, m |-> <<5210, 30580, 17232, 192>>, e |-> -28] ->
         [s |-> 1, m |-> <<11547, 31828, 12975, 166>>, e |-> -53]
      [] x = [s |-> 1, m |-> <<391, 13456, 28134, 149>>, e |-> -28] ->
         [s |-> 0, m |-> <<25221, 24911, 24646, 224>>, e |-> -53]
      [] x = [s |-> 1, m |-> <<23738, 9700, 28134, 149>>, e |-> -28] ->
         [s |-> 0, m |-> <<29054, 16082, 10157, 147>>, e |-> -53]
      [] x = [s |-> 1, m |-> <<23736, 9700, 28134, 149>>, e |-> -28] ->
         [s |-> 0, m |-> <<30382, 14407, 10157, 147>>, e |-> -53]
      [] x = [s |-> 1, m |-> <<22494, 9700, 28134, 149>>, e |-> -28] ->
         [s |-> 0, m |-> <<13021, 22832, 10125, 147>>, e |-> -53]
      [] x = [s |-> 1, m |-> <<8064, 9653, 28134, 149>>, e |-> -28] ->
         [s |-> 0, m |-> <<23183, 16440, 3082, 146>>, e |-> -53]
      [] x = [s |-> 1, m |-> <<17564, 7726, 28134, 149>>, e |-> -28] ->
         [s |-> 0, m |-> <<15330, 29505, 5504, 186>>, e |-> -54]
      [] x = [s |-> 1, m |-> <<31838, 12551, 10930, 196>>, e |-> -41] ->
         [s |-> 0, m |-> <<5094, 17683, 13872, 129>>, e |-> -54]
      [] x = [s |-> 1, m |-> <<12479, 20253, 10921, 196>>, e |-> -41] ->
         [s |-> 0, m |-> <<24020, 8441, 17768, 131>>, e |-> -54]
      [] x = [s |-> 1, m |-> <<758, 15473, 10921, 196>>, e |-> -41] ->
         [s |-> 0, m |-> <<4596, 7230, 18923, 131>>, e |-> -54]
      [] x = [s |-> 1, m |-> <<734, 15473, 10921, 196>>, e |-> -41] ->
         [s |-> 0, m |-> <<30760, 7235, 18923, 131>>, e |-> -54]
      [] x = [s |-> 1, m |-> <<1356, 22567, 9205, 244>>, e |-> -46] ->
         [s |-> 1, m |-> <<20040, 2162, 22727, 190>>, e |-> -54]
      [] x = [s |-> 1, m |-> <<23838, 11888, 9199, 244>>, e |-> -46] ->
         [s |-> 1, m |-> <<6673, 31075, 24229, 190>>, e |-> -54]
      [] x = [s |-> 1, m |-> <<21829, 11888, 9199, 244>>, e |-> -46] ->
         [s |-> 1, m |-> <<25204, 31089, 24229, 190>>, e |-> -54]
      [] x = [s |-> 1, m |-> <<5417, 5100, 8791, 244>>, e |-> -46] ->
         [s |-> 1, m |-> <<7873, 26534, 22782, 193>>, e |-> -54]
      [] x = [s |-> 1, m |-> <<7082, 30380, 29436, 239>>, e |-> -46] ->
         [s |-> 1, m |-> <<10335, 20877, 28014, 137>>, e |-> -53]
      [] x = [s |-> 1, m |-> <<10605, 6376, 11291, 178>>, e |-> -46] ->
         [s |-> 1, m |-> <<17644, 3098, 10119, 239>>, e |-> -53]
      [] x = [s |-> 1, m |-> <<28722, 3822, 11289, 178>>, e |-> -46] ->
         [s |-> 1, m |-> <<18071, 20424, 10024, 239>>, e |-> -53]
      [] x = [s |-> 1, m |-> <<21387, 3822, 11289, 178>>, e |-> -46] ->
         [s |-> 1, m |-> <<12257, 20414, 10024, 239>>, e |-> -53]
      [] x = [s |-> 1, m |-> <<5942, 18863, 10142, 178>>, e |-> -46] ->
         [s |-> 1, m |-> <<8587, 16628, 22234, 237>>, e |-> -53]
      [] x = [s |-> 1, m |-> <<20692, 13901, 31459, 177>>, e |-> -46] ->
         [s |-> 1, m |-> <<2341, 3421, 17243, 217>>, e |-> -53]
      [] x = [s |-> 1, m |-> <<22462, 16925, 19710, 140>>, e |-> -47] ->
         [s |-> 0, m |-> <<21660, 22173, 1187, 143>>, e |-> -53]
      [] x = [s |-> 1, m |-> <<15695, 29448, 19216, 140>>, e |-> -47] ->
         [s |-> 0, m |-> <<21594, 5960, 7722, 142>>, e |-> -53]
      [] x = [s |-> 1, m |-> <<15576, 29448, 19216, 140>>, e |-> -47] ->
         [s |-> 0, m |-> <<15261, 5960, 7722, 142>>, e |-> -53]
      [] x = [s |-> 1, m |-> <<1038, 3943, 19214, 140>>, e |-> -47] ->
         [s |-> 0, m |-> <<261, 11053, 7574, 142>>, e |-> -53]
      [] x = [s |-> 1, m |-> <<6892, 5214, 21732, 177>>, e |-> -48] ->
         [s |-> 0, m |-> <<11312, 15496, 7248, 220>>, e |-> -55]
      [] x = [s |-> 1, m |-> <<5441, 2826, 20805, 177>>, e |-> -48] ->
         [s |-> 0, m |-> <<8314, 30261, 22386, 216>>, e |-> -55]
      [] x = [s |-> 1, m |-> <<3809, 2826, 20805, 177>>, e |-> -48] ->
         [s |-> 0, m |-> <<757, 30255, 22386, 216>>, e |-> -55]
      [] x = [s |-> 1, m |-> <<16853, 31095, 20789, 177>>, e |-> -48] ->
         [s |-> 0, m |-> <<9234, 7028, 20493, 216>>, e |-> -55]
      [] x = [s |-> 1, m |-> <<17228, 14686, 4484, 183>>, e |-> -49] ->
         [s |-> 0, m |-> <<25901, 23363, 15108, 230>>, e |-> -53]
      [] x = [s |-> 1, m |-> <<1565, 6940, 25941, 181>>, e |-> -49] ->
         [s |-> 0, m |-> <<11845, 12476, 232, 239>>, e |-> -53]
      [] x = [s |-> 1, m |-> <<9147, 10454, 24250, 181>>, e |-> -49] ->
         [s |-> 0, m |-> <<15231, 4245, 9884, 239>>, e |-> -53]
      [] x = [s |-> 1, m |-> <<9143, 10454, 24250, 181>>, e |-> -49] ->
         [s |-> 0, m |-> <<15254, 4245, 9884, 239>>, e |-> -53]
      [] x = [s |-> 1, m |-> <<29111, 2390, 24250, 181>>, e |-> -49] ->
         [s |-> 0, m |-> <<16761, 17309, 9885, 239>>, e |-> -53]
      [] x = [s |-> 1, m |-> <<27407, 31484, 9200, 169>>, e |-> -49] ->
         [s |-> 0, m |-> <<15599, 29145, 7063, 234>>, e |-> -53]
      [] x = [s |-> 1, m |-> <<16511, 17777, 14124, 161>>, e |-> -49] ->
         [s |-> 0, m |-> <<32135, 25400, 29462, 157>>, e |-> -53]
      [] x = [s |-> 1, m |-> <<16504, 17777, 14124, 161>>, e |-> -49] ->
         [s |-> 0, m |-> <<32047, 25400, 29462, 157>>, e |-> -53]
      [] x = [s |-> 1, m |-> <<16492, 17777, 14124, 161>>, e |-> -49] ->
         [s |-> 0, m |-> <<31896, 25400, 29462, 157>>, e |-> -53]
      [] x = [s |-> 1, m |-> <<16429, 17777, 14124, 161>>, e |-> -49] ->
         [s |-> 0, m |-> <<31102, 25400, 29462, 157>>, e |-> -53]
      [] x = [s |-> 1, m |-> <<16132, 17777, 14124, 161>>, e |-> -49] ->
         [s |-> 0, m |-> <<27362, 25400, 29462, 157>>, e |-> -53]
      [] x = [s |-> 1, m |-> <<14751, 17777, 14124, 161>>, e |-> -49] ->
         [s |-> 0, m |-> <<9970, 25400, 29462, 157>>, e |-> -53]
      [] x = [s |-> 1, m |-> <<8322, 17777, 14124, 161>>, e |-> -49] ->
         [s |-> 0, m |-> <<27307, 25397, 29462, 157>>, e |-> -53]
      [] x = [s |-> 1, m |-> <<11206, 17776, 14124, 161>>, e |-> -49] ->
         [s |-> 0, m |-> <<11396, 25386, 29462, 157>>, e |-> -53]
      [] x = [s |-> 1, m |-> <<3294, 17772, 14124, 161>>, e |-> -49] ->
         [s |-> 0, m |-> <<30503, 25332, 29462, 157>>, e |-> -53]
      [] x = [s |-> 1, m |-> <<12338, 17752, 14124, 161>>, e |-> -49] ->
         [s |-> 0, m |-> <<17263, 25084, 29462, 157>>, e |-> -53]
      [] x = [s |-> 1, m |-> <<21447, 17660, 14124, 161>>, e |-> -49] ->
         [s |-> 0, m |-> <<12443, 23929, 29462, 157>>, e |-> -53]
      [] x = [s |-> 1, m |-> <<4059, 17234, 14124, 161>>, e |-> -49] ->
         [s |-> 0, m |-> <<21386, 18557, 29462, 157>>, e |-> -53]
      [] x = [s |-> 1, m |-> <<24029, 15250, 14124, 161>>, e |-> -49] ->
         [s |-> 0, m |-> <<27183, 26346, 29461, 157>>, e |-> -53]
      [] x = [s |-> 1, m |-> <<22024, 6029, 14124, 161>>, e |-> -49] ->
         [s |-> 0, m |-> <<24392, 8520, 29458, 157>>, e |-> -53]
      [] x = [s |-> 1, m |-> <<25787, 28734, 14122, 161>>, e |-> -49] ->
         [s |-> 0, m |-> <<24508, 26163, 29441, 157>>, e |-> -53]
      [] x = [s |-> 1, m |-> <<10876, 27234, 14116, 161>>, e |-> -49] ->
         [s |-> 0, m |-> <<10569, 21536, 29365, 157>>, e |-> -53]
      [] x = [s |-> 1, m |-> <<29942, 12843, 14089, 161>>, e |-> -49] ->
         [s |-> 0, m |-> <<8201, 2535, 29020, 157>>, e |-> -53]
      [] x = [s |-> 1, m |-> <<11233, 1312, 13974, 161>>, e |-> -49] ->
         [s |-> 0, m |-> <<27159, 4383, 27567, 157>>, e |-> -53]
      [] x = [s |-> 1, m |-> <<10398, 13287, 13587, 161>>, e |-> -49] ->
         [s |-> 0, m |-> <<17757, 11700, 22695, 157>>, e |-> -53]
      [] x = [s |-> 1, m |-> <<16801, 20642, 12713, 161>>, e |-> -49] ->
         [s |-> 0, m |-> <<28633, 919, 11675, 157>>, e |-> -53]
      [] x = [s |-> 1, m |-> <<17001, 16464, 25051, 160>>, e |-> -49] ->
         [s |-> 0, m |-> <<15553, 10618, 12131, 149>>, e |-> -53]
      [] x = [s |-> 1, m |-> <<6694, 12079, 23356, 160>>, e |-> -49] ->
         [s |-> 0, m |-> <<26142, 3016, 22847, 148>>, e |-> -53]
      [] x = [s |-> 1, m |-> <<27710, 9543, 22583, 160>>, e |-> -49] ->
         [s |-> 0, m |-> <<23847, 3121, 12773, 148>>, e |-> -53]
      [] x = [s |-> 1, m |-> <<32528, 29299, 22349, 160>>, e |-> -49] ->
         [s |-> 0, m |-> <<13580, 20033, 9729, 148>>, e |-> -53]
      [] x = [s |-> 1, m |-> <<11848, 6181, 22294, 160>>, e |-> -49] ->
         [s |-> 0, m |-> <<9522, 2370, 9003, 148>>, e |-> -53]
      [] x = [s |-> 1, m |-> <<1978, 29660, 22281, 160>>, e |-> -49] ->
         [s |-> 0, m |-> <<32084, 28102, 8842, 148>>, e |-> -53]
      [] x = [s |-> 1, m |-> <<24192, 8159, 22279, 160>>, e |-> -49] ->
         [s |-> 0, m |-> <<12364, 6980, 8808, 148>>, e |-> -53]
      [] x = [s |-> 1, m |-> <<32462, 22188, 22278, 160>>, e |-> -49] ->
         [s |-> 0, m |-> <<2728, 24710, 8800, 148>>, e |-> -53]
      [] x = [s |-> 1, m |-> <<12288, 18158, 22278, 160>>, e |-> -49] ->
         [s |-> 0, m |-> <<23071, 4905, 8799, 148>>, e |-> -53]
      [] x = [s |-> 1, m |-> <<19153, 17291, 22278, 160>>, e |-> -49] ->
         [s |-> 0, m |-> <<30366, 26367, 8798, 148>>, e |-> -53]
      [] x = [s |-> 1, m |-> <<6162, 17105, 22278, 160>>, e |-> -49] ->
         [s |-> 0, m |-> <<23215, 23936, 8798, 148>>, e |-> -53]
      [] x = [s |-> 1, m |-> <<3449, 17065, 22278, 160>>, e |-> -49] ->
         [s |-> 0, m |-> <<29425, 23413, 8798, 148>>, e |-> -53]
      [] x = [s |-> 1, m |-> <<15919, 17056, 22278, 160>>, e |-> -49] ->
         [s |-> 0, m |-> <<15476, 23301, 8798, 148>>, e |-> -53]
      [] x = [s |-> 1, m |-> <<20724, 17054, 22278, 160>>, e |-> -49] ->
         [s |-> 0, m |-> <<9777, 23277, 8798, 148>>, e |-> -53]
      [] x = [s |-> 1, m |-> <<7659, 17054, 22278, 160>>, e |-> -49] ->
         [s |-> 0, m |-> <<3207, 23272, 8798, 148>>, e |-> -53]
      [] x = [s |-> 1, m |-> <<4852, 17054, 22278, 160>>, e |-> -49] ->
         [s |-> 0, m |-> <<32130, 23270, 8798, 148>>, e |-> -53]
      [] x = [s |-> 1, m |-> <<4250, 17054, 22278, 160>>, e |-> -49] ->
         [s |-> 0, m |-> <<24278, 23270, 8798, 148>>, e |-> -53]
      [] x = [s |-> 1, m |-> <<4120, 17054, 22278, 160>>, e |-> -49] ->
         [s |-> 0, m |-> <<22583, 23270, 8798, 148>>, e |-> -53]
      [] x = [s |-> 1, m |-> <<4098, 17054, 22278, 160>>, e |-> -49] ->
         [s |-> 0, m |-> <<22296, 23270, 8798, 148>>, e |-> -53]
      [] x = [s |-> 1, m |-> <<4085, 17054, 22278, 160>>, e |-> -49] ->
         [s |-> 0, m |-> <<22126, 23270, 8798, 148>>, e |-> -53]
      [] x = [s |-> 1, m |-> <<16795, 15840, 13358, 160>>, e |-> -49] ->
         [s |-> 0, m |-> <<29901, 25060, 22826, 144>>, e |-> -53]
      [] x = [s |-> 1, m |-> <<30434, 24033, 16322, 159>>, e |-> -49] ->
         [s |-> 0, m |-> <<31810, 4681, 15215, 132>>, e |-> -53]
      [] x = [s |-> 1, m |-> <<6878, 3039, 28543, 157>>, e |-> -49] ->
         [s |-> 0, m |-> <<16344, 14349, 2712, 219>>, e |-> -54]
      [] x = [s |-> 1, m |-> <<24906, 24836, 10246, 157>>, e |-> -49] ->
         [s |-> 0, m |-> <<30801, 9182, 26329, 202>>, e |-> -54]
      [] x = [s |-> 1, m |-> <<30499, 6569, 4889, 157>>, e |-> -49] ->
         [s |-> 0, m |-> <<15819, 30735, 32405, 197>>, e |-> -54]
      [] x = [s |-> 1, m |-> <<30491, 6569, 4889, 157>>, e |-> -49] ->
         [s |-> 0, m |-> <<15583, 30735, 32405, 197>>, e |-> -54]
      [] x = [s |-> 1, m |-> <<30478, 6569, 4889, 157>>, e |-> -49] ->
         [s |-> 0, m |-> <<15200, 30735, 32405, 197>>, e |-> -54]
      [] x = [s |-> 1, m |-> <<30400, 6569, 4889, 157>>, e |-> -49] ->
         [s |-> 0, m |-> <<12898, 30735, 32405, 197>>, e |-> -54]
      [] x = [s |-> 1, m |-> <<30039, 6569, 4889, 157>>, e |-> -49] ->
         [s |-> 0, m |-> <<2245, 30735, 32405, 197>>, e |-> -54]
      [] x = [s |-> 1, m |-> <<28358, 6569, 4889, 157>>, e |-> -49] ->
         [s |-> 0, m |-> <<18173, 30733, 32405, 197>>, e |-> -54]
      [] x = [s |-> 1, m |-> <<20534, 6569, 4889, 157>>, e |-> -49] ->
         [s |-> 0, m |-> <<16658, 30726, 32405, 197>>, e |-> -54]
      [] x = [s |-> 1, m |-> <<16930, 6568, 4889, 157>>, e |-> -49] ->
         [s |-> 0, m |-> <<24642, 30693, 32405, 197>>, e |-> -54]
      [] x = [s |-> 1, m |-> <<11613, 6563, 4889, 157>>, e |-> -49] ->
         [s |-> 0, m |-> <<13451, 30541, 32405, 197>>, e |-> -54]
      [] x = [s |-> 1, m |-> <<11421, 6539, 4889, 157>>, e |-> -49] ->
         [s |-> 0, m |-> <<32204, 29832, 32405, 197>>, e |-> -54]
      [] x = [s |-> 1, m |-> <<23409, 6427, 4889, 157>>, e |-> -49] ->
         [s |-> 0, m |-> <<19335, 26538, 32405, 197>>, e |-> -54]
      [] x = [s |-> 1, m |-> <<19254, 5908, 4889, 157>>, e |-> -49] ->
         [s |-> 0, m |-> <<27465, 11218, 32405, 197>>, e |-> -54]
      [] x = [s |-> 1, m |-> <<20453, 3494, 4889, 157>>, e |-> -49] ->
         [s |-> 0, m |-> <<9415, 5517, 32403, 197>>, e |-> -54]
      [] x = [s |-> 1, m |-> <<28232, 25039, 4888, 157>>, e |-> -49] ->
         [s |-> 0, m |-> <<18927, 2006, 32393, 197>>, e |-> -54]
      [] x = [s |-> 1, m |-> <<8696, 5681, 4887, 157>>, e |-> -49] ->
         [s |-> 0, m |-> <<2952, 3813, 32346, 197>>, e |-> -54]
      [] x = [s |-> 1, m |-> <<9885, 26763, 4879, 157>>, e |-> -49] ->
         [s |-> 0, m |-> <<17902, 549, 32129, 197>>, e |-> -54]
      [] x = [s |-> 1, m |-> <<2111, 14913, 4846, 157>>, e |-> -49] ->
         [s |-> 0, m |-> <<18156, 15521, 31144, 197>>, e |-> -54]
      [] x = [s |-> 1, m |-> <<17142, 22481, 4706, 157>>, e |-> -49] ->
         [s |-> 0, m |-> <<6049, 14158, 27019, 197>>, e |-> -54]
      [] x = [s |-> 1, m |-> <<8480, 27965, 4243, 157>>, e |-> -49] ->
         [s |-> 0, m |-> <<7550, 14365, 13356, 197>>, e |-> -54]
      [] x = [s |-> 1, m |-> <<16638, 20148, 3229, 157>>, e |-> -49] ->
         [s |-> 0, m |-> <<27400, 4028, 16166, 196>>, e |-> -54]
      [] x = [s |-> 1, m |-> <<23340, 401, 23808, 156>>, e |-> -49] ->
         [s |-> 0, m |-> <<24683, 2460, 14708, 185>>, e |-> -54]
      [] x = [s |-> 1, m |-> <<14734, 25773, 23286, 156>>, e |-> -49] ->
         [s |-> 0, m |-> <<17893, 12954, 31926, 184>>, e |-> -54]
      [] x = [s |-> 1, m |-> <<27639, 4016, 23056, 156>>, e |-> -49] ->
         [s |-> 0, m |-> <<29648, 3446, 25043, 184>>, e |-> -54]
      [] x = [s |-> 1, m |-> <<21658, 9853, 22987, 156>>, e |-> -49] ->
         [s |-> 0, m |-> <<5879, 4934, 22989, 184>>, e |-> -54]
      [] x = [s |-> 1, m |-> <<30400, 30459, 22970, 156>>, e |-> -49] ->
         [s |-> 0, m |-> <<17700, 17907, 22500, 184>>, e |-> -54]
      [] x = [s |-> 1, m |-> <<6194, 10565, 22967, 156>>, e |-> -49] ->
         [s |-> 0, m |-> <<3654, 29132, 22392, 184>>, e |-> -54]
      [] x = [s |-> 1, m |-> <<22896, 17778, 22966, 156>>, e |-> -49] ->
         [s |-> 0, m |-> <<7716, 20104, 22369, 184>>, e |-> -54]
      [] x = [s |-> 1, m |-> <<2347, 12277, 22966, 156>>, e |-> -49] ->
         [s |-> 0, m |-> <<7127, 19744, 22364, 184>>, e |-> -54]
      [] x = [s |-> 1, m |-> <<23174, 11093, 22966, 156>>, e |-> -49] ->
         [s |-> 0, m |-> <<27948, 17193, 22363, 184>>, e |-> -54]
      [] x = [s |-> 1, m |-> <<7314, 10839, 22966, 156>>, e |-> -49] ->
         [s |-> 0, m |-> <<19462, 9598, 22363, 184>>, e |-> -54]
      [] x = [s |-> 1, m |-> <<16333, 10784, 22966, 156>>, e |-> -49] ->
         [s |-> 0, m |-> <<9630, 7965, 22363, 184>>, e |-> -54]
      [] x = [s |-> 1, m |-> <<23934, 10772, 22966, 156>>, e |-> -49] ->
         [s |-> 0, m |-> <<2240, 7614, 22363, 184>>, e |-> -54]
      [] x = [s |-> 1, m |-> <<6547, 10770, 22966, 156>>, e |-> -49] ->
         [s |-> 0, m |-> <<17711, 7538, 22363, 184>>, e |-> -54]
      [] x = [s |-> 1, m |-> <<21484, 10769, 22966, 156>>, e |-> -49] ->
         [s |-> 0, m |-> <<9820, 7522, 22363, 184>>, e |-> -54]
      [] x = [s |-> 1, m |-> <<17649, 10769, 22966, 156>>, e |-> -49] ->
         [s |-> 0, m |-> <<26434, 7518, 22363, 184>>, e |-> -54]
      [] x = [s |-> 1, m |-> <<16825, 10769, 22966, 156>>, e |-> -49] ->
         [s |-> 0, m |-> <<1841, 7518, 22363, 184>>, e |-> -54]
      [] x = [s |-> 1, m |-> <<16647, 10769, 22966, 156>>, e |-> -49] ->
         [s |-> 0, m |-> <<29296, 7517, 22363, 184>>, e |-> -54]
      [] x = [s |-> 1, m |-> <<16610, 10769, 22966, 156>>, e |-> -49] ->
         [s |-> 0, m |-> <<28192, 7517, 22363, 184>>, e |-> -54]
      [] x = [s |-> 1, m |-> <<16602, 10769, 22966, 156>>, e |-> -49] ->
         [s |-> 0, m |-> <<27953, 7517, 22363, 184>>, e |-> -54]
      [] x = [s |-> 1, m |-> <<16599, 10769, 22966, 156>>, e |-> -49] ->
         [s |-> 0, m |-> <<27864, 7517, 22363, 184>>, e |-> -54]
      [] x = [s |-> 1, m |-> <<17151, 12773, 10061, 218>>, e |-> -50] ->
         [s |-> 1, m |-> <<10020, 2339, 12432, 131>>, e |-> -53]
      [] x = [s |-> 1, m |-> <<11952, 27816, 2646, 212>>, e |-> -50] ->
         [s |-> 1, m |-> <<24993, 32559, 27463, 172>>, e |-> -54]
      [] x = [s |-> 1, m |-> <<11946, 27816, 2646, 212>>, e |-> -50] ->
         [s |-> 1, m |-> <<24903, 32559, 27463, 172>>, e |-> -54]
      [] x = [s |-> 1, m |-> <<11932, 27816, 2646, 212>>, e |-> -50] ->
         [s |-> 1, m |-> <<24692, 32559, 27463, 172>>, e |-> -54]
      [] x = [s |-> 1, m |-> <<11863, 27816, 2646, 212>>, e |-> -50] ->
         [s |-> 1, m |-> <<23653, 32559, 27463, 172>>, e |-> -54]
      [] x = [s |-> 1, m |-> <<11530, 27816, 2646, 212>>, e |-> -50] ->
         [s |-> 1, m |-> <<18638, 32559, 27463, 172>>, e |-> -54]
      [] x = [s |-> 1, m |-> <<9991, 27816, 2646, 212>>, e |-> -50] ->
         [s |-> 1, m |-> <<28227, 32558, 27463, 172>>, e |-> -54]
      [] x = [s |-> 1, m |-> <<2826, 27816, 2646, 212>>, e |-> -50] ->
         [s |-> 1, m |-> <<18621, 32555, 27463, 172>>, e |-> -54]
      [] x = [s |-> 1, m |-> <<2282, 27815, 2646, 212>>, e |-> -50] ->
         [s |-> 1, m |-> <<8436, 32540, 27463, 172>>, e |-> -54]
      [] x = [s |-> 1, m |-> <<11202, 27810, 2646, 212>>, e |-> -50] ->
         [s |-> 1, m |-> <<1748, 32469, 27463, 172>>, e |-> -54]
      [] x = [s |-> 1, m |-> <<11675, 27788, 2646, 212>>, e |-> -50] ->
         [s |-> 1, m |-> <<30590, 32137, 27463, 172>>, e |-> -54]
      [] x = [s |-> 1, m |-> <<3843, 27686, 2646, 212>>, e |-> -50] ->
         [s |-> 1, m |-> <<4395, 30598, 27463, 172>>, e |-> -54]
      [] x = [s |-> 1, m |-> <<22278, 27210, 2646, 212>>, e |-> -50] ->
         [s |-> 1, m |-> <<22130, 23437, 27463, 172>>, e |-> -54]
      [] x = [s |-> 1, m |-> <<28506, 24999, 2646, 212>>, e |-> -50] ->
         [s |-> 1, m |-> <<4922, 22909, 27462, 172>>, e |-> -54]
      [] x = [s |-> 1, m |-> <<16305, 14721, 2646, 212>>, e |-> -50] ->
         [s |-> 1, m |-> <<26906, 31948, 27457, 172>>, e |-> -54]
      [] x = [s |-> 1, m |-> <<12051, 32515, 2644, 212>>, e |-> -50] ->
         [s |-> 1, m |-> <<25425, 1042, 27436, 172>>, e |-> -54]
      [] x = [s |-> 1, m |-> <<18486, 8295, 2638, 212>>, e |-> -50] ->
         [s |-> 1, m |-> <<20125, 17533, 27334, 172>>, e |-> -54]
      [] x = [s |-> 1, m |-> <<507, 21801, 2607, 212>>, e |-> -50] ->
         [s |-> 1, m |-> <<31830, 27998, 26873, 172>>, e |-> -54]
      [] x = [s |-> 1, m |-> <<9869, 1378, 2479, 212>>, e |-> -50] ->
         [s |-> 1, m |-> <<29108, 20291, 24936, 172>>, e |-> -54]
      [] x = [s |-> 1, m |-> <<7151, 16953, 2047, 212>>, e |-> -50] ->
         [s |-> 1, m |-> <<14545, 21896, 18436, 172>>, e |-> -54]
      [] x = [s |-> 1, m |-> <<9650, 31792, 1069, 212>>, e |-> -50] ->
         [s |-> 1, m |-> <<2233, 18812, 3708, 172>>, e |-> -54]
      [] x = [s |-> 1, m |-> <<29730, 16795, 9997, 211>>, e |-> -50] ->
         [s |-> 1, m |-> <<2908, 24609, 3480, 161>>, e |-> -54]
      [] x = [s |-> 1, m |-> <<3883, 30436, 7927, 211>>, e |-> -50] ->
         [s |-> 1, m |-> <<26877, 5441, 4807, 160>>, e |-> -54]
      [] x = [s |-> 1, m |-> <<31900, 1659, 6979, 211>>, e |-> -50] ->
         [s |-> 1, m |-> <<1973, 24625, 23152, 159>>, e |-> -54]
      [] x = [s |-> 1, m |-> <<9615, 31222, 6691, 211>>, e |-> -50] ->
         [s |-> 1, m |-> <<32490, 5929, 18788, 159>>, e |-> -54]
      [] x = [s |-> 1, m |-> <<6023, 12693, 6623, 211>>, e |-> -50] ->
         [s |-> 1, m |-> <<6287, 25057, 17745, 159>>, e |-> -54]
      [] x = [s |-> 1, m |-> <<747, 8714, 6608, 211>>, e |-> -50] ->
         [s |-> 1, m |-> <<17868, 28412, 17515, 159>>, e |-> -54]
      [] x = [s |-> 1, m |-> <<18287, 32637, 6604, 211>>, e |-> -50] ->
         [s |-> 1, m |-> <<4762, 5016, 17466, 159>>, e |-> -54]
      [] x = [s |-> 1, m |-> <<17830, 9568, 6604, 211>>, e |-> -50] ->
         [s |-> 1, m |-> <<28862, 14734, 17455, 159>>, e |-> -54]
      [] x = [s |-> 1, m |-> <<16426, 4606, 6604, 211>>, e |-> -50] ->
         [s |-> 1, m |-> <<18267, 4830, 17453, 159>>, e |-> -54]
      [] x = [s |-> 1, m |-> <<13287, 3539, 6604, 211>>, e |-> -50] ->
         [s |-> 1, m |-> <<32326, 21374, 17452, 159>>, e |-> -54]
      [] x = [s |-> 1, m |-> <<30635, 3309, 6604, 211>>, e |-> -50] ->
         [s |-> 1, m |-> <<7695, 17886, 17452, 159>>, e |-> -54]
      [] x = [s |-> 1, m |-> <<19315, 3260, 6604, 211>>, e |-> -50] ->
         [s |-> 1, m |-> <<395, 17136, 17452, 159>>, e |-> -54]
      [] x = [s |-> 1, m |-> <<32051, 3249, 6604, 211>>, e |-> -50] ->
         [s |-> 1, m |-> <<22378, 16974, 17452, 159>>, e |-> -54]
      [] x = [s |-> 1, m |-> <<22822, 3247, 6604, 211>>, e |-> -50] ->
         [s |-> 1, m |-> <<32570, 16939, 17452, 159>>, e |-> -54]
      [] x = [s |-> 1, m |-> <<6739, 3247, 6604, 211>>, e |-> -50] ->
         [s |-> 1, m |-> <<17428, 16932, 17452, 159>>, e |-> -54]
      [] x = [s |-> 1, m |-> <<3283, 3247, 6604, 211>>, e |-> -50] ->
         [s |-> 1, m |-> <<30421, 16930, 17452, 159>>, e |-> -54]
      [] x = [s |-> 1, m |-> <<2541, 3247, 6604, 211>>, e |-> -50] ->
         [s |-> 1, m |-> <<19140, 16930, 17452, 159>>, e |-> -54]
      [] x = [s |-> 1, m |-> <<2380, 3247, 6604, 211>>, e |-> -50] ->
         [s |-> 1, m |-> <<16692, 16930, 17452, 159>>, e |-> -54]
      [] x = [s |-> 1, m |-> <<2355, 3247, 6604, 211>>, e |-> -50] ->
         [s |-> 1, m |-> <<16312, 16930, 17452, 159>>, e |-> -54]
      [] x = [s |-> 1, m |-> <<2338, 3247, 6604, 211>>, e |-> -50] ->
         [s |-> 1, m |-> <<16054, 16930, 17452, 159>>, e |-> -54]
      [] x = [s |-> 1, m |-> <<5701, 20222, 28170, 210>>, e |-> -50] ->
         [s |-> 1, m |-> <<2015, 31406, 10695, 154>>, e |-> -54]
      [] x = [s |-> 1, m |-> <<12617, 15802, 19760, 209>>, e |-> -50] ->
         [s |-> 1, m |-> <<15693, 9541, 1342, 135>>, e |-> -54]
      [] x = [s |-> 1, m |-> <<13623, 30676, 2482, 205>>, e |-> -50] ->
         [s |-> 1, m |-> <<3671, 1264, 3488, 128>>, e |-> -55]
      [] x = [s |-> 1, m |-> <<22688, 21335, 29659, 201>>, e |-> -50] ->
         [s |-> 1, m |-> <<2216, 3090, 27427, 215>>, e |-> -58]
      [] x = [s |-> 1, m |-> <<7001, 10020, 28025, 200>>, e |-> -50] ->
         [s |-> 0, m |-> <<14267, 30256, 20442, 211>>, e |-> -60]
      [] x = [s |-> 1, m |-> <<6951, 10020, 28025, 200>>, e |-> -50] ->
         [s |-> 0, m |-> <<32698, 30257, 20442, 211>>, e |-> -60]
      [] x = [s |-> 1, m |-> <<6864, 10020, 28025, 200>>, e |-> -50] ->
         [s |-> 0, m |-> <<23480, 30260, 20442, 211>>, e |-> -60]
      [] x = [s |-> 1, m |-> <<6351, 10020, 28025, 200>>, e |-> -50] ->
         [s |-> 0, m |-> <<24493, 30276, 20442, 211>>, e |-> -60]
      [] x = [s |-> 1, m |-> <<3975, 10020, 28025, 200>>, e |-> -50] ->
         [s |-> 0, m |-> <<32634, 30350, 20442, 211>>, e |-> -60]
      [] x = [s |-> 1, m |-> <<25665, 10019, 28025, 200>>, e |-> -50] ->
         [s |-> 0, m |-> <<5774, 30697, 20442, 211>>, e |-> -60]
      [] x = [s |-> 1, m |-> <<6865, 10018, 28025, 200>>, e |-> -50] ->
         [s |-> 0, m |-> <<21057, 32308, 20442, 211>>, e |-> -60]
      [] x = [s |-> 1, m |-> <<29307, 10010, 28025, 200>>, e |-> -50] ->
         [s |-> 0, m |-> <<5698, 7031, 20443, 211>>, e |-> -60]
      [] x = [s |-> 1, m |-> <<28637, 9976, 28025, 200>>, e |-> -50] ->
         [s |-> 0, m |-> <<12611, 9099, 20444, 211>>, e |-> -60]
      [] x = [s |-> 1, m |-> <<21933, 9818, 28025, 200>>, e |-> -50] ->
         [s |-> 0, m |-> <<16593, 7257, 20449, 211>>, e |-> -60]
      [] x = [s |-> 1, m |-> <<31880, 9082, 28025, 200>>, e |-> -50] ->
         [s |-> 0, m |-> <<31181, 6930, 20472, 211>>, e |-> -60]
      [] x = [s |-> 1, m |-> <<26173, 5661, 28025, 200>>, e |-> -50] ->
         [s |-> 0, m |-> <<7657, 3964, 20579, 211>>, e |-> -60]
      [] x = [s |-> 1, m |-> <<5741, 22521, 28024, 200>>, e |-> -50] ->
         [s |-> 0, m |-> <<31586, 8358, 21076, 211>>, e |-> -60]
      [] x = [s |-> 1, m |-> <<6934, 14096, 28022, 200>>, e |-> -50] ->
         [s |-> 0, m |-> <<13614, 15957, 23387, 211>>, e |-> -60]
      [] x = [s |-> 1, m |-> <<869, 31013, 28011, 200>>, e |-> -50] ->
         [s |-> 0, m |-> <<5422, 20057, 1354, 212>>, e |-> -60]
      [] x = [s |-> 1, m |-> <<14953, 15132, 27963, 200>>, e |-> -50] ->
         [s |-> 0, m |-> <<3289, 27295, 18233, 213>>, e |-> -60]
      [] x = [s |-> 1, m |-> <<31744, 17875, 27743, 200>>, e |-> -50] ->
         [s |-> 0, m |-> <<10774, 5247, 14047, 220>>, e |-> -60]
      [] x = [s |-> 1, m |-> <<11476, 14436, 26821, 200>>, e |-> -50] ->
         [s |-> 0, m |-> <<15103, 12098, 7986, 249>>, e |-> -60]
      [] x = [s |-> 1, m |-> <<28516, 5918, 23759, 200>>, e |-> -50] ->
         [s |-> 0, m |-> <<32661, 8893, 15325, 172>>, e |-> -59]
      [] x = [s |-> 1, m |-> <<23919, 13725, 17001, 200>>, e |-> -50] ->
         [s |-> 0, m |-> <<380, 4464, 779, 139>>, e |-> -58]
      [] x = [s |-> 1, m |-> <<28445, 22952, 29039, 197>>, e |-> -50] ->
         [s |-> 0, m |-> <<15462, 26019, 29880, 202>>, e |-> -56]
      [] x = [s |-> 1, m |-> <<28818, 25621, 25144, 197>>, e |-> -50] ->
         [s |-> 0, m |-> <<2851, 20490, 15738, 210>>, e |-> -56]
      [] x = [s |-> 1, m |-> <<27482, 25371, 23415, 197>>, e |-> -50] ->
         [s |-> 0, m |-> <<19121, 24138, 27495, 213>>, e |-> -56]
      [] x = [s |-> 1, m |-> <<445, 8702, 22899, 197>>, e |-> -50] ->
         [s |-> 0, m |-> <<1125, 24739, 27602, 214>>, e |-> -56]
      [] x = [s |-> 1, m |-> <<18251, 11699, 22776, 197>>, e |-> -50] ->
         [s |-> 0, m |-> <<23719, 14739, 2657, 215>>, e |-> -56]
      [] x = [s |-> 1, m |-> <<13009, 8970, 22749, 197>>, e |-> -50] ->
         [s |-> 0, m |-> <<3021, 6315, 4381, 215>>, e |-> -56]
      [] x = [s |-> 1, m |-> <<18248, 13705, 22743, 197>>, e |-> -50] ->
         [s |-> 0, m |-> <<18719, 28537, 4753, 215>>, e |-> -56]
      [] x = [s |-> 1, m |-> <<2816, 5165, 22742, 197>>, e |-> -50] ->
         [s |-> 0, m |-> <<6544, 3443, 4834, 215>>, e |-> -56]
      [] x = [s |-> 1, m |-> <<29278, 29047, 22741, 197>>, e |-> -50] ->
         [s |-> 0, m |-> <<31833, 11892, 4851, 215>>, e |-> -56]
      [] x = [s |-> 1, m |-> <<3976, 27137, 22741, 197>>, e |-> -50] ->
         [s |-> 0, m |-> <<23557, 2433, 4855, 215>>, e |-> -56]
      [] x = [s |-> 1, m |-> <<7371, 26726, 22741, 197>>, e |-> -50] ->
         [s |-> 0, m |-> <<18852, 28585, 4855, 215>>, e |-> -56]
      [] x = [s |-> 1, m |-> <<28357, 26637, 22741, 197>>, e |-> -50] ->
         [s |-> 0, m |-> <<9694, 1441, 4856, 215>>, e |-> -56]
      [] x = [s |-> 1, m |-> <<28328, 26618, 22741, 197>>, e |-> -50] ->
         [s |-> 0, m |-> <<20434, 2650, 4856, 215>>, e |-> -56]
      [] x = [s |-> 1, m |-> <<25526, 26614, 22741, 197>>, e |-> -50] ->
         [s |-> 0, m |-> <<21281, 2910, 4856, 215>>, e |-> -56]
      [] x = [s |-> 1, m |-> <<29493, 26613, 22741, 197>>, e |-> -50] ->
         [s |-> 0, m |-> <<19337, 2966, 4856, 215>>, e |-> -56]
      [] x = [s |-> 1, m |-> <<23307, 26613, 22741, 197>>, e |-> -50] ->
         [s |-> 0, m |-> <<19835, 2978, 4856, 215>>, e |-> -56]
      [] x = [s |-> 1, m |-> <<21978, 26613, 22741, 197>>, e |-> -50] ->
         [s |-> 0, m |-> <<6116, 2981, 4856, 215>>, e |-> -56]
      [] x = [s |-> 1, m |-> <<21694, 26613, 22741, 197>>, e |-> -50] ->
         [s |-> 0, m |-> <<24191, 2981, 4856, 215>>, e |-> -56]
      [] x = [s |-> 1, m |-> <<21641, 26613, 22741, 197>>, e |-> -50] ->
         [s |-> 0, m |-> <<27565, 2981, 4856, 215>>, e |-> -56]
      [] x = [s |-> 1, m |-> <<21610, 26613, 22741, 197>>, e |-> -50] ->
         [s |-> 0, m |-> <<29538, 2981, 4856, 215>>, e |-> -56]
      [] x = [s |-> 1, m |-> <<10566, 16423, 22524, 195>>, e |-> -50] ->
         [s |-> 0, m |-> <<28364, 31468, 5823, 171>>, e |-> -55]
      [] x = [s |-> 1, m |-> <<21830, 16525, 24756, 149>>, e |-> -50] ->
         [s |-> 0, m |-> <<14326, 5102, 28330, 255>>, e |-> -53]
      [] x = [s |-> 1, m |-> <<3632, 32460, 25096, 247>>, e |-> -51] ->
         [s |-> 0, m |-> <<30103, 1991, 21982, 170>>, e |-> -53]
      [] x = [s |-> 1, m |-> <<17801, 1148, 3678, 217>>, e |-> -51] ->
         [s |-> 0, m |-> <<26126, 5862, 3984, 254>>, e |-> -55]
      [] x = [s |-> 1, m |-> <<19254, 10239, 28760, 200>>, e |-> -51] ->
         [s |-> 1, m |-> <<27150, 24115, 21499, 188>>, e |-> -61]
      [] x = [s |-> 1, m |-> <<25962, 14927, 9047, 194>>, e |-> -51] ->
         [s |-> 1, m |-> <<16286, 471, 24239, 216>>, e |-> -56]
      [] x = [s |-> 1, m |-> <<1436, 16860, 28365, 190>>, e |-> -51] ->
         [s |-> 1, m |-> <<13014, 5021, 14787, 162>>, e |-> -55]
      [] x = [s |-> 1, m |-> <<10212, 28834, 26558, 190>>, e |-> -51] ->
         [s |-> 1, m |-> <<22180, 8409, 10557, 163>>, e |-> -55]
      [] x = [s |-> 1, m |-> <<7742, 25661, 26558, 190>>, e |-> -51] ->
         [s |-> 1, m |-> <<32059, 25760, 10558, 163>>, e |-> -55]
      [] x = [s |-> 1, m |-> <<20418, 18829, 16874, 184>>, e |-> -51] ->
         [s |-> 1, m |-> <<30141, 30513, 29680, 130>>, e |-> -54]
      [] x = [s |-> 1, m |-> <<13993, 22410, 26291, 182>>, e |-> -51] ->
         [s |-> 1, m |-> <<28409, 20177, 3370, 144>>, e |-> -54]
      [] x = [s |-> 1, m |-> <<13740, 15652, 3931, 180>>, e |-> -51] ->
         [s |-> 1, m |-> <<21515, 25605, 18410, 164>>, e |-> -54]
      [] x = [s |-> 1, m |-> <<26923, 24915, 32297, 179>>, e |-> -51] ->
         [s |-> 1, m |-> <<9071, 5992, 18976, 165>>, e |-> -54]
      [] x = [s |-> 1, m |-> <<3320, 1479, 32297, 179>>, e |-> -51] ->
         [s |-> 1, m |-> <<25136, 19570, 18981, 165>>, e |-> -54]
      [] x = [s |-> 1, m |-> <<3300, 1479, 32297, 179>>, e |-> -51] ->
         [s |-> 1, m |-> <<25288, 19570, 18981, 165>>, e |-> -54]
      [] x = [s |-> 1, m |-> <<3808, 31619, 6264, 175>>, e |-> -51] ->
         [s |-> 1, m |-> <<3824, 29889, 12298, 201>>, e |-> -54]
      [] x = [s |-> 1, m |-> <<19028, 9934, 14529, 168>>, e |-> -51] ->
         [s |-> 1, m |-> <<31413, 26374, 26110, 249>>, e |-> -54]
      [] x = [s |-> 1, m |-> <<11430, 3572, 29990, 164>>, e |-> -51] ->
         [s |-> 1, m |-> <<3071, 14581, 705, 137>>, e |-> -53]
      [] x = [s |-> 1, m |-> <<29514, 8087, 29169, 164>>, e |-> -51] ->
         [s |-> 1, m |-> <<19921, 20628, 3478, 137>>, e |-> -53]
      [] x = [s |-> 1, m |-> <<26852, 6646, 29169, 164>>, e |-> -51] ->
         [s |-> 1, m |-> <<17173, 25496, 3478, 137>>, e |-> -53]
      [] x = [s |-> 1, m |-> <<28070, 20740, 31959, 163>>, e |-> -51] ->
         [s |-> 1, m |-> <<25212, 13116, 5975, 140>>, e |-> -53]
      [] x = [s |-> 1, m |-> <<23106, 4282, 19214, 163>>, e |-> -51] ->
         [s |-> 1, m |-> <<3926, 13966, 15781, 141>>, e |-> -53]
      [] x = [s |-> 1, m |-> <<7603, 6330, 19195, 163>>, e |-> -51] ->
         [s |-> 1, m |-> <<23595, 18235, 15844, 141>>, e |-> -53]
      [] x = [s |-> 1, m |-> <<27972, 6328, 19195, 163>>, e |-> -51] ->
         [s |-> 1, m |-> <<10324, 18240, 15844, 141>>, e |-> -53]
      [] x = [s |-> 1, m |-> <<20193, 21009, 4655, 162>>, e |-> -51] ->
         [s |-> 1, m |-> <<32611, 4428, 8516, 146>>, e |-> -53]
      [] x = [s |-> 1, m |-> <<3413, 10324, 23980, 161>>, e |-> -51] ->
         [s |-> 1, m |-> <<27028, 9834, 19782, 147>>, e |-> -53]
      [] x = [s |-> 1, m |-> <<10241, 10060, 14923, 161>>, e |-> -51] ->
         [s |-> 1, m |-> <<1362, 31353, 16568, 148>>, e |-> -53]
      [] x = [s |-> 1, m |-> <<14708, 25996, 14885, 161>>, e |-> -51] ->
         [s |-> 1, m |-> <<1101, 5975, 16691, 148>>, e |-> -53]
      [] x = [s |-> 1, m |-> <<32671, 25992, 14885, 161>>, e |-> -51] ->
         [s |-> 1, m |-> <<9177, 5986, 16691, 148>>, e |-> -53]
      [] x = [s |-> 1, m |-> <<3300, 902, 504, 160>>, e |-> -51] ->
         [s |-> 1, m |-> <<2651, 28740, 5228, 153>>, e |-> -53]
      [] x = [s |-> 1, m |-> <<25441, 4862, 31861, 158>>, e |-> -51] ->
         [s |-> 1, m |-> <<9501, 30691, 15801, 156>>, e |-> -53]
      [] x = [s |-> 1, m |-> <<28475, 30845, 31705, 158>>, e |-> -51] ->
         [s |-> 1, m |-> <<19622, 8689, 16293, 156>>, e |-> -53]
      [] x = [s |-> 1, m |-> <<15840, 30739, 31705, 158>>, e |-> -51] ->
         [s |-> 1, m |-> <<12023, 9026, 16293, 156>>, e |-> -53]
      [] x = [s |-> 1, m |-> <<10667, 27525, 19932, 155>>, e |-> -51] ->
         [s |-> 1, m |-> <<15069, 15350, 29844, 166>>, e |-> -53]
      [] x = [s |-> 1, m |-> <<29541, 28762, 1352, 134>>, e |-> -51] ->
         [s |-> 1, m |-> <<19627, 20656, 23019, 221>>, e |-> -53]
      [] x = [s |-> 1, m |-> <<26148, 16579, 23070, 255>>, e |-> -52] ->
         [s |-> 1, m |-> <<11809, 14327, 846, 233>>, e |-> -53]
      [] x = [s |-> 1, m |-> <<7158, 465, 19769, 255>>, e |-> -52] ->
         [s |-> 1, m |-> <<21136, 32539, 3577, 233>>, e |-> -53]
      [] x = [s |-> 1, m |-> <<20487, 31451, 19768, 255>>, e |-> -52] ->
         [s |-> 1, m |-> <<13280, 1244, 3578, 233>>, e |-> -53]
      [] x = [s |-> 1, m |-> <<25696, 22822, 10271, 254>>, e |-> -52] ->
         [s |-> 1, m |-> <<11496, 11790, 5360, 234>>, e |-> -53]
      [] x = [s |-> 1, m |-> <<32301, 4805, 7039, 254>>, e |-> -52] ->
         [s |-> 1, m |-> <<29888, 26943, 7970, 234>>, e |-> -53]
      [] x = [s |-> 1, m |-> <<29903, 3088, 7039, 254>>, e |-> -52] ->
         [s |-> 1, m |-> <<10903, 28329, 7970, 234>>, e |-> -53]
      [] x = [s |-> 1, m |-> <<23781, 28435, 4431, 254>>, e |-> -52] ->
         [s |-> 1, m |-> <<7441, 731, 10073, 234>>, e |-> -53]
      [] x = [s |-> 1, m |-> <<21898, 8750, 1208, 254>>, e |-> -52] ->
         [s |-> 1, m |-> <<13391, 1617, 12668, 234>>, e |-> -53]
      [] x = [s |-> 1, m |-> <<30859, 7041, 1208, 254>>, e |-> -52] ->
         [s |-> 1, m |-> <<24455, 2991, 12668, 234>>, e |-> -53]
      [] x = [s |-> 1, m |-> <<1965, 31577, 28689, 253>>, e |-> -52] ->
         [s |-> 1, m |-> <<5828, 24562, 16913, 234>>, e |-> -53]
      [] x = [s |-> 1, m |-> <<29117, 14726, 25479, 253>>, e |-> -52] ->
         [s |-> 1, m |-> <<10184, 10482, 19486, 234>>, e |-> -53]
      [] x = [s |-> 1, m |-> <<11615, 13030, 25479, 253>>, e |-> -52] ->
         [s |-> 1, m |-> <<17887, 11840, 19486, 234>>, e |-> -53]
      [] x = [s |-> 1, m |-> <<5713, 864, 1240, 251>>, e |-> -52] ->
         [s |-> 1, m |-> <<18718, 22099, 24057, 236>>, e |-> -53]
      [] x = [s |-> 1, m |-> <<13754, 4470, 4663, 250>>, e |-> -52] ->
         [s |-> 1, m |-> <<2346, 17045, 13436, 237>>, e |-> -53]
      [] x = [s |-> 1, m |-> <<18654, 26248, 23830, 248>>, e |-> -52] ->
         [s |-> 1, m |-> <<20597, 15014, 14886, 238>>, e |-> -53]
      [] x = [s |-> 1, m |-> <<24348, 29235, 17889, 248>>, e |-> -52] ->
         [s |-> 1, m |-> <<3237, 22271, 19201, 238>>, e |-> -53]
      [] x = [s |-> 1, m |-> <<32420, 11845, 9233, 248>>, e |-> -52] ->
         [s |-> 1, m |-> <<11283, 10881, 25461, 238>>, e |-> -53]
      [] x = [s |-> 1, m |-> <<5896, 16699, 21756, 245>>, e |-> -52] ->
         [s |-> 1, m |-> <<194, 30313, 20148, 240>>, e |-> -53]
      [] x = [s |-> 1, m |-> <<31163, 27725, 21649, 245>>, e |-> -52] ->
         [s |-> 1, m |-> <<13409, 24964, 20221, 240>>, e |-> -53]
      [] x = [s |-> 1, m |-> <<18944, 27725, 21649, 245>>, e |-> -52] ->
         [s |-> 1, m |-> <<21753, 24964, 20221, 240>>, e |-> -53]
      [] x = [s |-> 1, m |-> <<5402, 3444, 6113, 245>>, e |-> -52] ->
         [s |-> 1, m |-> <<24057, 25254, 30776, 240>>, e |-> -53]
      [] x = [s |-> 1, m |-> <<24471, 11559, 19118, 244>>, e |-> -52] ->
         [s |-> 1, m |-> <<3203, 6424, 11278, 241>>, e |-> -53]
      [] x = [s |-> 1, m |-> <<8914, 9413, 16059, 228>>, e |-> -52] ->
         [s |-> 1, m |-> <<13337, 32034, 4753, 250>>, e |-> -53]
      [] x = [s |-> 1, m |-> <<13787, 26848, 15990, 228>>, e |-> -52] ->
         [s |-> 1, m |-> <<6187, 3127, 4783, 250>>, e |-> -53]
      [] x = [s |-> 1, m |-> <<8547, 26848, 15990, 228>>, e |-> -52] ->
         [s |-> 1, m |-> <<8415, 3127, 4783, 250>>, e |-> -53]
      [] x = [s |-> 1, m |-> <<32712, 7308, 12060, 227>>, e |-> -52] ->
         [s |-> 1, m |-> <<23898, 20311, 20075, 250>>, e |-> -53]
      [] x = [s |-> 1, m |-> <<8728, 25609, 24526, 223>>, e |-> -52] ->
         [s |-> 1, m |-> <<4899, 12445, 32426, 251>>, e |-> -53]
      [] x = [s |-> 1, m |-> <<1429, 19000, 22637, 223>>, e |-> -52] ->
         [s |-> 1, m |-> <<10011, 23633, 323, 252>>, e |-> -53]
      [] x = [s |-> 1, m |-> <<23259, 18246, 22637, 223>>, e |-> -52] ->
         [s |-> 1, m |-> <<9225, 23898, 323, 252>>, e |-> -53]
      [] x = [s |-> 1, m |-> <<23258, 18246, 22637, 223>>, e |-> -52] ->
         [s |-> 1, m |-> <<9226, 23898, 323, 252>>, e |-> -53]
      [] x = [s |-> 1, m |-> <<14063, 262, 24103, 219>>, e |-> -52] ->
         [s |-> 1, m |-> <<15031, 26864, 9193, 253>>, e |-> -53]
      [] x = [s |-> 1, m |-> <<3218, 28455, 22600, 219>>, e |-> -52] ->
         [s |-> 1, m |-> <<29217, 725, 9630, 253>>, e |-> -53]
      [] x = [s |-> 1, m |-> <<19221, 27975, 22600, 219>>, e |-> -52] ->
         [s |-> 1, m |-> <<31648, 864, 9630, 253>>, e |-> -53]
      [] x = [s |-> 1, m |-> <<10022, 19095, 7238, 219>>, e |-> -52] ->
         [s |-> 1, m |-> <<859, 29813, 14029, 253>>, e |-> -53]
      [] x = [s |-> 1, m |-> <<24796, 18547, 5786, 219>>, e |-> -52] ->
         [s |-> 1, m |-> <<29790, 592, 14440, 253>>, e |-> -53]
      [] x = [s |-> 1, m |-> <<11589, 18099, 5786, 219>>, e |-> -52] ->
         [s |-> 1, m |-> <<13193, 719, 14440, 253>>, e |-> -53]
      [] x = [s |-> 1, m |-> <<11588, 18099, 5786, 219>>, e |-> -52] ->
         [s |-> 1, m |-> <<13193, 719, 14440, 253>>, e |-> -53]
      [] x = [s |-> 1, m |-> <<12281, 18589, 15426, 218>>, e |-> -52] ->
         [s |-> 1, m |-> <<9767, 2799, 20838, 253>>, e |-> -53]
      [] x = [s |-> 1, m |-> <<6153, 25609, 14047, 218>>, e |-> -52] ->
         [s |-> 1, m |-> <<10934, 17342, 21211, 253>>, e |-> -53]
      [] x = [s |-> 1, m |-> <<13586, 25204, 14047, 218>>, e |-> -52] ->
         [s |-> 1, m |-> <<27347, 17451, 21211, 253>>, e |-> -53]
      [] x = [s |-> 1, m |-> <<13585, 25204, 14047, 218>>, e |-> -52] ->
         [s |-> 1, m |-> <<27347, 17451, 21211, 253>>, e |-> -53]
      [] x = [s |-> 1, m |-> <<7591, 2024, 23155, 216>>, e |-> -52] ->
         [s |-> 1, m |-> <<18074, 6934, 2956, 254>>, e |-> -53]
      [] x = [s |-> 1, m |-> <<27840, 9069, 21954, 212>>, e |-> -52] ->
         [s |-> 1, m |-> <<13490, 12435, 31064, 254>>, e |-> -53]
      [] x = [s |-> 1, m |-> <<4075, 30286, 5006, 212>>, e |-> -52] ->
         [s |-> 1, m |-> <<6301, 26427, 1297, 255>>, e |-> -53]
      [] x = [s |-> 1, m |-> <<2470, 27678, 13080, 211>>, e |-> -52] ->
         [s |-> 1, m |-> <<25146, 30941, 5426, 255>>, e |-> -53]
      [] x = [s |-> 1, m |-> <<12666, 6854, 10328, 210>>, e |-> -52] ->
         [s |-> 1, m |-> <<10174, 3022, 10858, 255>>, e |-> -53]
      [] x = [s |-> 1, m |-> <<4615, 28780, 1392, 210>>, e |-> -52] ->
         [s |-> 1, m |-> <<9333, 28529, 12129, 255>>, e |-> -53]
      [] x = [s |-> 1, m |-> <<9696, 12080, 13431, 200>>, e |-> -52] ->
         [s |-> 1, m |-> <<9531, 5284, 32659, 255>>, e |-> -53]
      [] x = [s |-> 1, m |-> <<11702, 12064, 13431, 200>>, e |-> -52] ->
         [s |-> 1, m |-> <<4210, 5284, 32659, 255>>, e |-> -53]
      [] x = [s |-> 1, m |-> <<10450, 14365, 13141, 200>>, e |-> -52] ->
         [s |-> 1, m |-> <<27226, 6140, 32656, 255>>, e |-> -53]
      [] x = [s |-> 1, m |-> <<14862, 23796, 10099, 199>>, e |-> -52] ->
         [s |-> 1, m |-> <<753, 22415, 31980, 255>>, e |-> -53]
      [] x = [s |-> 1, m |-> <<5566, 23734, 10099, 199>>, e |-> -52] ->
         [s |-> 1, m |-> <<10367, 22413, 31980, 255>>, e |-> -53]
      [] x = [s |-> 1, m |-> <<14254, 134, 9564, 199>>, e |-> -52] ->
         [s |-> 1, m |-> <<10162, 30683, 31965, 255>>, e |-> -53]
      [] x = [s |-> 1, m |-> <<30578, 11844, 6494, 194>>, e |-> -52] ->
         [s |-> 1, m |-> <<20241, 16404, 20710, 255>>, e |-> -53]
      [] x = [s |-> 1, m |-> <<30124, 22663, 6631, 192>>, e |-> -52] ->
         [s |-> 1, m |-> <<29464, 5884, 12682, 255>>, e |-> -53]
      [] x = [s |-> 1, m |-> <<3443, 24638, 5565, 192>>, e |-> -52] ->
         [s |-> 1, m |-> <<26151, 15356, 12534, 255>>, e |-> -53]
      [] x = [s |-> 1, m |-> <<16766, 3970, 5432, 192>>, e |-> -52] ->
         [s |-> 1, m |-> <<15660, 29912, 12515, 255>>, e |-> -53]
      [] x = [s |-> 1, m |-> <<23474, 31120, 4483, 192>>, e |-> -52] ->
         [s |-> 1, m |-> <<823, 229, 12384, 255>>, e |-> -53]
      [] x = [s |-> 1, m |-> <<7858, 11448, 4478, 192>>, e |-> -52] ->
         [s |-> 1, m |-> <<28344, 7425, 12383, 255>>, e |-> -53]
      [] x = [s |-> 1, m |-> <<27515, 20703, 4477, 192>>, e |-> -52] ->
         [s |-> 1, m |-> <<17816, 4149, 12383, 255>>, e |-> -53]
      [] x = [s |-> 1, m |-> <<26001, 19211, 4476, 192>>, e |-> -52] ->
         [s |-> 1, m |-> <<19129, 32143, 12382, 255>>, e |-> -53]
      [] x = [s |-> 1, m |-> <<3431, 22637, 13313, 191>>, e |-> -52] ->
         [s |-> 1, m |-> <<1518, 4573, 8912, 255>>, e |-> -53]
      [] x = [s |-> 1, m |-> <<12156, 23036, 4166, 190>>, e |-> -52] ->
         [s |-> 1, m |-> <<24203, 29005, 2176, 255>>, e |-> -53]
      [] x = [s |-> 1, m |-> <<22242, 31603, 4124, 190>>, e |-> -52] ->
         [s |-> 1, m |-> <<24101, 24974, 2169, 255>>, e |-> -53]
      [] x = [s |-> 1, m |-> <<16177, 26551, 3828, 190>>, e |-> -52] ->
         [s |-> 1, m |-> <<25826, 6465, 2119, 255>>, e |-> -53]
      [] x = [s |-> 1, m |-> <<24877, 2000, 3827, 190>>, e |-> -52] ->
         [s |-> 1, m |-> <<7574, 29443, 2118, 255>>, e |-> -53]
      [] x = [s |-> 1, m |-> <<27486, 27424, 3826, 190>>, e |-> -52] ->
         [s |-> 1, m |-> <<26865, 28188, 2118, 255>>, e |-> -53]
      [] x = [s |-> 1, m |-> <<31865, 16723, 3826, 190>>, e |-> -52] ->
         [s |-> 1, m |-> <<292, 26361, 2118, 255>>, e |-> -53]
      [] x = [s |-> 1, m |-> <<18695, 12770, 6006, 188>>, e |-> -52] ->
         [s |-> 1, m |-> <<22830, 28806, 23111, 254>>, e |-> -53]
      [] x = [s |-> 1, m |-> <<2401, 6895, 3589, 187>>, e |-> -52] ->
         [s |-> 1, m |-> <<31003, 31818, 15749, 254>>, e |-> -53]
      [] x = [s |-> 1, m |-> <<7657, 29637, 11232, 183>>, e |-> -52] ->
         [s |-> 1, m |-> <<5283, 19178, 18056, 253>>, e |-> -53]
      [] x = [s |-> 1, m |-> <<9631, 22428, 214, 177>>, e |-> -52] ->
         [s |-> 1, m |-> <<317, 7075, 16138, 251>>, e |-> -53]
      [] x = [s |-> 1, m |-> <<367, 5316, 14694, 173>>, e |-> -52] ->
         [s |-> 1, m |-> <<32162, 16533, 2162, 250>>, e |-> -53]
      [] x = [s |-> 1, m |-> <<9170, 21188, 8707, 164>>, e |-> -52] ->
         [s |-> 1, m |-> <<26229, 22907, 16214, 245>>, e |-> -53]
      [] x = [s |-> 1, m |-> <<31808, 13875, 6804, 164>>, e |-> -52] ->
         [s |-> 1, m |-> <<1479, 20967, 15134, 245>>, e |-> -53]
      [] x = [s |-> 1, m |-> <<19859, 5898, 26068, 163>>, e |-> -52] ->
         [s |-> 1, m |-> <<23972, 18717, 7423, 245>>, e |-> -53]
      [] x = [s |-> 1, m |-> <<8182, 13679, 25988, 163>>, e |-> -52] ->
         [s |-> 1, m |-> <<29281, 25506, 7377, 245>>, e |-> -53]
      [] x = [s |-> 1, m |-> <<2645, 6486, 25978, 163>>, e |-> -52] ->
         [s |-> 1, m |-> <<19159, 29852, 7371, 245>>, e |-> -53]
      [] x = [s |-> 1, m |-> <<18462, 10060, 25963, 163>>, e |-> -52] ->
         [s |-> 1, m |-> <<10800, 11847, 7363, 245>>, e |-> -53]
      [] x = [s |-> 1, m |-> <<4925, 9275, 2857, 161>>, e |-> -52] ->
         [s |-> 1, m |-> <<16063, 14533, 20215, 243>>, e |-> -53]
      [] x = [s |-> 1, m |-> <<26959, 11207, 13704, 157>>, e |-> -52] ->
         [s |-> 1, m |-> <<13757, 32113, 8603, 241>>, e |-> -53]
      [] x = [s |-> 1, m |-> <<3628, 17985, 19797, 139>>, e |-> -52] ->
         [s |-> 1, m |-> <<16449, 8624, 1779, 227>>, e |-> -53]
      [] x = [s |-> 1, m |-> <<31571, 17984, 19797, 139>>, e |-> -52] ->
         [s |-> 1, m |-> <<11991, 8624, 1779, 227>>, e |-> -53]
      [] x = [s |-> 1, m |-> <<32206, 13901, 19718, 139>>, e |-> -52] ->
         [s |-> 1, m |-> <<14165, 5446, 1706, 227>>, e |-> -53]
      [] x = [s |-> 1, m |-> <<32102, 86, 27394, 138>>, e |-> -52] ->
         [s |-> 1, m |-> <<19310, 27333, 11159, 226>>, e |-> -53]
      [] x = [s |-> 1, m |-> <<32041, 29210, 10288, 138>>, e |-> -52] ->
         [s |-> 1, m |-> <<27835, 20212, 27882, 225>>, e |-> -53]
      [] x = [s |-> 1, m |-> <<8595, 14338, 2722, 255>>, e |-> -53] ->
         [s |-> 1, m |-> <<31177, 10019, 30139, 214>>, e |-> -53]
      [] x = [s |-> 1, m |-> <<7905, 11088, 16960, 248>>, e |-> -53] ->
         [s |-> 1, m |-> <<9730, 29775, 9252, 211>>, e |-> -53]
      [] x = [s |-> 1, m |-> <<25796, 8973, 19858, 238>>, e |-> -53] ->
         [s |-> 1, m |-> <<22988, 357, 17326, 205>>, e |-> -53]
      [] x = [s |-> 1, m |-> <<15315, 24413, 10229, 232>>, e |-> -53] ->
         [s |-> 1, m |-> <<27603, 29051, 23419, 201>>, e |-> -53]
      [] x = [s |-> 1, m |-> <<22928, 17481, 4118, 212>>, e |-> -53] ->
         [s |-> 1, m |-> <<18254, 22851, 21991, 188>>, e |-> -53]
      [] x = [s |-> 1, m |-> <<7596, 17480, 4118, 212>>, e |-> -53] ->
         [s |-> 1, m |-> <<18511, 22850, 21991, 188>>, e |-> -53]
      [] x = [s |-> 1, m |-> <<2441, 4207, 3782, 212>>, e |-> -53] ->
         [s |-> 1, m |-> <<6604, 10400, 21764, 188>>, e |-> -53]
      [] x = [s |-> 1, m |-> <<22550, 11784, 22083, 210>>, e |-> -53] ->
         [s |-> 1, m |-> <<10743, 8927, 22507, 187>>, e |-> -53]
      [] x = [s |-> 1, m |-> <<7386, 11783, 22083, 210>>, e |-> -53] ->
         [s |-> 1, m |-> <<10914, 8926, 22507, 187>>, e |-> -53]
      [] x = [s |-> 1, m |-> <<21496, 21774, 21746, 210>>, e |-> -53] ->
         [s |-> 1, m |-> <<6495, 9598, 22278, 187>>, e |-> -53]
      [] x = [s |-> 1, m |-> <<29089, 6863, 15988, 210>>, e |-> -53] ->
         [s |-> 1, m |-> <<2322, 18057, 18360, 187>>, e |-> -53]
      [] x = [s |-> 1, m |-> <<13948, 6862, 15988, 210>>, e |-> -53] ->
         [s |-> 1, m |-> <<2483, 18056, 18360, 187>>, e |-> -53]
      [] x = [s |-> 1, m |-> <<6508, 15738, 15651, 210>>, e |-> -53] ->
         [s |-> 1, m |-> <<13816, 12093, 18131, 187>>, e |-> -53]
      [] x = [s |-> 1, m |-> <<29765, 15459, 14282, 210>>, e |-> -53] ->
         [s |-> 1, m |-> <<30068, 16487, 17199, 187>>, e |-> -53]
      [] x = [s |-> 1, m |-> <<3792, 28860, 7106, 210>>, e |-> -53] ->
         [s |-> 1, m |-> <<2512, 16294, 12312, 187>>, e |-> -53]
      [] x = [s |-> 1, m |-> <<21452, 28858, 7106, 210>>, e |-> -53] ->
         [s |-> 1, m |-> <<2658, 16293, 12312, 187>>, e |-> -53]
      [] x = [s |-> 1, m |-> <<8929, 3382, 6770, 210>>, e |-> -53] ->
         [s |-> 1, m |-> <<13646, 696, 12083, 187>>, e |-> -53]
      [] x = [s |-> 1, m |-> <<31140, 2961, 32536, 208>>, e |-> -53] ->
         [s |-> 1, m |-> <<14513, 24509, 17682, 186>>, e |-> -53]
      [] x = [s |-> 1, m |-> <<12354, 2313, 26478, 208>>, e |-> -53] ->
         [s |-> 1, m |-> <<24507, 7592, 13532, 186>>, e |-> -53]
      [] x = [s |-> 1, m |-> <<12406, 29396, 17650, 208>>, e |-> -53] ->
         [s |-> 1, m |-> <<31245, 25876, 7478, 186>>, e |-> -53]
      [] x = [s |-> 1, m |-> <<6845, 31764, 25223, 205>>, e |-> -53] ->
         [s |-> 1, m |-> <<12167, 15023, 10403, 184>>, e |-> -53]
      [] x = [s |-> 1, m |-> <<4453, 22558, 27761, 201>>, e |-> -53] ->
         [s |-> 1, m |-> <<26685, 6547, 18801, 181>>, e |-> -53]
      [] x = [s |-> 1, m |-> <<4621, 8679, 27761, 201>>, e |-> -53] ->
         [s |-> 1, m |-> <<1096, 29532, 18800, 181>>, e |-> -53]
      [] x = [s |-> 1, m |-> <<4620, 8679, 27761, 201>>, e |-> -53] ->
         [s |-> 1, m |-> <<1095, 29532, 18800, 181>>, e |-> -53]
      [] x = [s |-> 1, m |-> <<24801, 18878, 14585, 201>>, e |-> -53] ->
         [s |-> 1, m |-> <<15135, 18663, 9505, 181>>, e |-> -53]
      [] x = [s |-> 1, m |-> <<12518, 25720, 25177, 191>>, e |-> -53] ->
         [s |-> 1, m |-> <<3561, 11129, 10812, 174>>, e |-> -53]
      [] x = [s |-> 1, m |-> <<28248, 4517, 13797, 166>>, e |-> -53] ->
         [s |-> 1, m |-> <<12911, 24767, 30948, 154>>, e |-> -53]
      [] x = [s |-> 1, m |-> <<16767, 17768, 18701, 132>>, e |-> -53] ->
         [s |-> 1, m |-> <<2157, 4681, 14703, 253>>, e |-> -54]
      [] x = [s |-> 1, m |-> <<28320, 21187, 12366, 227>>, e |-> -54] ->
         [s |-> 1, m |-> <<16281, 22644, 32007, 219>>, e |-> -54]
      [] x = [s |-> 1, m |-> <<19760, 26677, 11259, 192>>, e |-> -54] ->
         [s |-> 1, m |-> <<5077, 9617, 27893, 187>>, e |-> -54]
      [] x = [s |-> 1, m |-> <<1630, 11457, 30449, 185>>, e |-> -54] ->
         [s |-> 1, m |-> <<19328, 31336, 28494, 181>>, e |-> -54]
      [] x = [s |-> 1, m |-> <<208, 23814, 22268, 185>>, e |-> -54] ->
         [s |-> 1, m |-> <<25382, 4085, 20847, 181>>, e |-> -54]
      [] x = [s |-> 1, m |-> <<23707, 14599, 29759, 183>>, e |-> -54] ->
         [s |-> 1, m |-> <<11871, 23149, 32077, 179>>, e |-> -54]
      [] x = [s |-> 1, m |-> <<11213, 19733, 29416, 183>>, e |-> -54] ->
         [s |-> 1, m |-> <<18930, 24320, 31756, 179>>, e |-> -54]
      [] x = [s |-> 1, m |-> <<6844, 22140, 29372, 183>>, e |-> -54] ->
         [s |-> 1, m |-> <<6501, 20274, 31715, 179>>, e |-> -54]
      [] x = [s |-> 1, m |-> <<9711, 21956, 29308, 183>>, e |-> -54] ->
         [s |-> 1, m |-> <<4857, 22852, 31655, 179>>, e |-> -54]
      [] x = [s |-> 1, m |-> <<1811, 16915, 20210, 217>>, e |-> -55] ->
         [s |-> 1, m |-> <<9632, 3930, 32192, 215>>, e |-> -55]
      [] x = [s |-> 1, m |-> <<11930, 32387, 5803, 170>>, e |-> -55] ->
         [s |-> 1, m |-> <<1190, 26354, 12938, 169>>, e |-> -55]
      [] x = [s |-> 1, m |-> <<5444, 32384, 5803, 170>>, e |-> -55] ->
         [s |-> 1, m |-> <<28916, 26350, 12938, 169>>, e |-> -55]
      [] x = [s |-> 1, m |-> <<29148, 28672, 4276, 170>>, e |-> -55] ->
         [s |-> 1, m |-> <<2671, 23759, 11432, 169>>, e |-> -55]
      [] x = [s |-> 1, m |-> <<17270, 11505, 11409, 167>>, e |-> -55] ->
         [s |-> 1, m |-> <<12564, 8630, 19800, 166>>, e |-> -55]
      [] x = [s |-> 1, m |-> <<14623, 10255, 26318, 179>>, e |-> -57] ->
         [s |-> 1, m |-> <<7714, 9134, 24426, 179>>, e |-> -57]
      [] x = [s |-> 1, m |-> <<6571, 10255, 26318, 179>>, e |-> -57] ->
         [s |-> 1, m |-> <<32438, 9133, 24426, 179>>, e |-> -57]
      [] x = [s |-> 1, m |-> <<5697, 928, 24675, 179>>, e |-> -57] ->
         [s |-> 1, m |-> <<2370, 18897, 22784, 179>>, e |-> -57]
      [] x = [s |-> 1, m |-> <<18885, 28447, 26194, 176>>, e |-> -57] ->
         [s |-> 1, m |-> <<2444, 2526, 24396, 176>>, e |-> -57]
      [] x = [s |-> 1, m |-> <<8674, 9516, 14341, 193>>, e |-> -58] ->
         [s |-> 1, m |-> <<3546, 8872, 13752, 193>>, e |-> -58]
      [] x = [s |-> 1, m |-> <<386, 7613, 24580, 154>>, e |-> -60] ->
         [s |-> 1, m |-> <<19809, 12556, 24561, 154>>, e |-> -60]
      [] x = [s |-> 1, m |-> <<1854, 20852, 19945, 240>>, e |-> -67] ->
         [s |-> 1, m |-> <<11760, 20710, 19945, 240>>, e |-> -67]
      [] x = [s |-> 1, m |-> <<9590, 22865, 10592, 240>>, e |-> -67] ->
         [s |-> 1, m |-> <<3233, 22724, 10592, 240>>, e |-> -67]
      [] x = [s |-> 1, m |-> <<25021, 11864, 6341, 240>>, e |-> -67] ->
         [s |-> 1, m |-> <<26153, 11723, 6341, 240>>, e |-> -67]
      [] x = [s |-> 1, m |-> <<13042, 11048, 30653, 239>>, e |-> -67] ->
         [s |-> 1, m |-> <<29046, 10907, 30653, 239>>, e |-> -67]
      [] x = [s |-> 1, m |-> <<21701, 12844, 30579, 239>>, e |-> -67] ->
         [s |-> 1, m |-> <<5067, 12704, 30579, 239>>, e |-> -67]
      [] x = [s |-> 1, m |-> <<48, 18758, 30537, 239>>, e |-> -67] ->
         [s |-> 1, m |-> <<16256, 18617, 30537, 239>>, e |-> -67]
      [] x = [s |-> 1, m |-> <<25060, 26891, 24654, 239>>, e |-> -67] ->
         [s |-> 1, m |-> <<18827, 26751, 24654, 239>>, e |-> -67]
      [] x = [s |-> 1, m |-> <<21330, 12943, 11508, 238>>, e |-> -67] ->
         [s |-> 1, m |-> <<29633, 12805, 11508, 238>>, e |-> -67]
      [] x = [s |-> 1, m |-> <<31008, 19216, 28971, 237>>, e |-> -67] ->
         [s |-> 1, m |-> <<258, 19080, 28971, 237>>, e |-> -67]
      [] x = [s |-> 1, m |-> <<24833, 28459, 17198, 220>>, e |-> -67] ->
         [s |-> 1, m |-> <<21747, 28350, 17198, 220>>, e |-> -67]
      [] x = [s |-> 1, m |-> <<16418, 13857, 14982, 143>>, e |-> -74] ->
         [s |-> 1, m |-> <<16358, 13857, 14982, 143>>, e |-> -74]
      [] x = Zero ->
         Zero
      [] x = [s |-> 0, m |-> <<23259, 21254, 8304, 129>>, e |-> -69] ->
         [s |-> 0, m |-> <<11040, 21253, 8304, 129>>, e |-> -69]
      [] x = [s |-> 0, m |-> <<24290, 32422, 1501, 183>>, e |-> -67] ->
         [s |-> 0, m |-> <<11542, 32360, 1501, 183>>, e |-> -67]
      [] x = [s |-> 0, m |-> <<15395, 8163, 1356, 148>>, e |-> -62] ->
         [s |-> 0, m |-> <<15280, 7134, 1355, 148>>, e |-> -62]
      [] x = [s |-> 0, m |-> <<25655, 2948, 20461, 138>>, e |-> -59] ->
         [s |-> 0, m |-> <<11273, 29256, 20406, 138>>, e |-> -59]
      [] x = [s |-> 0, m |-> <<20864, 30267, 31074, 140>>, e |-> -59] ->
         [s |-> 0, m |-> <<7804, 31290, 31017, 140>>, e |-> -59]
      [] x = [s |-> 0, m |-> <<8076, 26274, 9297, 161>>, e |-> -59] ->
         [s |-> 0, m |-> <<17829, 14644, 9212, 161>>, e |-> -59]
      [] x = [s |-> 0, m |-> <<20467, 15916, 8374, 187>>, e |-> -59] ->
         [s |-> 0, m |-> <<4007, 29490, 8240, 187>>, e |-> -59]
      [] x = [s |-> 0, m |-> <<15491, 28805, 29743, 220>>, e |-> -59] ->
         [s |-> 0, m |-> <<21667, 18166, 29524, 220>>, e |-> -59]
      [] x = [s |-> 0, m |-> <<32210, 17640, 29748, 220>>, e |-> -59] ->
         [s |-> 0, m |-> <<9629, 6988, 29529, 220>>, e |-> -59]
      [] x = [s |-> 0, m |-> <<32253, 24116, 29751, 220>>, e |-> -59] ->
         [s |-> 0, m |-> <<25266, 13454, 29532, 220>>, e |-> -59]
      [] x = [s |-> 0, m |-> <<27674, 22716, 29776, 220>>, e |-> -59] ->
         [s |-> 0, m |-> <<9701, 11980, 29557, 220>>, e |-> -59]
      [] x = [s |-> 0, m |-> <<16966, 3208, 1234, 221>>, e |-> -59] ->
         [s |-> 0, m |-> <<6830, 12647, 1014, 221>>, e |-> -59]
      [] x = [s |-> 0, m |-> <<27849, 19861, 1829, 221>>, e |-> -59] ->
         [s |-> 0, m |-> <<19518, 27524, 1609, 221>>, e |-> -59]
      [] x = [s |-> 0, m |-> <<12584, 23413, 22857, 151>>, e |-> -58] ->
         [s |-> 0, m |-> <<23208, 20652, 22573, 151>>, e |-> -58]
      [] x = [s |-> 0, m |-> <<24064, 874, 2178, 185>>, e |-> -58] ->
         [s |-> 0, m |-> <<6835, 7055, 1662, 185>>, e |-> -58]
      [] x = [s |-> 0, m |-> <<27008, 26223, 4820, 185>>, e |-> -58] ->
         [s |-> 0, m |-> <<15711, 10297, 4304, 185>>, e |-> -58]
      [] x = [s |-> 0, m |-> <<23761, 26155, 18220, 185>>, e |-> -58] ->
         [s |-> 0, m |-> <<20044, 28913, 17700, 185>>, e |-> -58]
      [] x = [s |-> 0, m |-> <<6063, 31822, 18224, 185>>, e |-> -58] ->
         [s |-> 0, m |-> <<32617, 1776, 17705, 185>>, e |-> -58]
      [] x = [s |-> 0, m |-> <<23399, 27360, 18227, 185>>, e |-> -58] ->
         [s |-> 0, m |-> <<14807, 30059, 17707, 185>>, e |-> -58]
      [] x = [s |-> 0, m |-> <<14538, 6130, 18250, 185>>, e |-> -58] ->
         [s |-> 0, m |-> <<9705, 8641, 17730, 185>>, e |-> -58]
      [] x = [s |-> 0, m |-> <<30707, 17117, 22034, 185>>, e |-> -58] ->
         [s |-> 0, m |-> <<27859, 20566, 21513, 185>>, e |-> -58]
      [] x = [s |-> 0, m |-> <<17695, 28456, 22567, 185>>, e |-> -58] ->
         [s |-> 0, m |-> <<10146, 27416, 22046, 185>>, e |-> -58]
      [] x = [s |-> 0, m |-> <<8453, 11955, 18486, 241>>, e |-> -58] ->
         [s |-> 0, m |-> <<10304, 9013, 17339, 241>>, e |-> -58]
      [] x = [s |-> 0, m |-> <<13622, 29930, 22778, 244>>, e |-> -58] ->
         [s |-> 0, m |-> <<13510, 20999, 21586, 244>>, e |-> -58]
      [] x = [s |-> 0, m |-> <<22963, 22407, 2513, 253>>, e |-> -58] ->
         [s |-> 0, m |-> <<28344, 21429, 1194, 253>>, e |-> -58]
      [] x = [s |-> 0, m |-> <<14458, 23127, 2550, 253>>, e |-> -58] ->
         [s |-> 0, m |-> <<24525, 21570, 1231, 253>>, e |-> -58]
      [] x = [s |-> 0, m |-> <<11940, 12899, 2813, 253>>, e |-> -58] ->
         [s |-> 0, m |-> <<8739, 7235, 1494, 253>>, e |-> -58]
      [] x = [s |-> 0, m |-> <<29780, 30972, 2814, 253>>, e |-> -58] ->
         [s |-> 0, m |-> <<18024, 25284, 1495, 253>>, e |-> -58]
      [] x = [s |-> 0, m |-> <<30934, 4718, 2815, 253>>, e |-> -58] ->
         [s |-> 0, m |-> <<15624, 31795, 1495, 253>>, e |-> -58]
      [] x = [s |-> 0, m |-> <<19012, 14210, 2815, 253>>, e |-> -58] ->
         [s |-> 0, m |-> <<19126, 8514, 1496, 253>>, e |-> -58]
      [] x = [s |-> 0, m |-> <<9522, 19945, 2797, 132>>, e |-> -57] ->
         [s |-> 0, m |-> <<15292, 16597, 2047, 132>>, e |-> -57]
      [] x = [s |-> 0, m |-> <<26793, 28380, 2802, 132>>, e |-> -57] ->
         [s |-> 0, m |-> <<13997, 24943, 2052, 132>>, e |-> -57]
      [] x = [s |-> 0, m |-> <<5122, 15540, 2806, 132>>, e |-> -57] ->
         [s |-> 0, m |-> <<9726, 12041, 2056, 132>>, e |-> -57]
      [] x = [s |-> 0, m |-> <<21985, 20822, 2834, 132>>, e |-> -57] ->
         [s |-> 0, m |-> <<1550, 16844, 2084, 132>>, e |-> -57]
      [] x = [s |-> 0, m |-> <<6163, 15882, 7602, 132>>, e |-> -57] ->
         [s |-> 0, m |-> <<26120, 28890, 6849, 132>>, e |-> -57]
      [] x = [s |-> 0, m |-> <<24422, 14497, 8274, 132>>, e |-> -57] ->
         [s |-> 0, m |-> <<18420, 16031, 7521, 132>>, e |-> -57]
      [] x = [s |-> 0, m |-> <<27479, 17833, 8287, 137>>, e |-> -57] ->
         [s |-> 0, m |-> <<1152, 30089, 7445, 137>>, e |-> -57]
      [] x = [s |-> 0, m |-> <<7625, 31530, 2083, 138>>, e |-> -57] ->
         [s |-> 0, m |-> <<6456, 10990, 1227, 138>>, e |-> -57]
      [] x = [s |-> 0, m |-> <<29294, 16665, 5487, 138>>, e |-> -57] ->
         [s |-> 0, m |-> <<27806, 31031, 4628, 138>>, e |-> -57]
      [] x = [s |-> 0, m |-> <<21399, 27346, 10446, 138>>, e |-> -57] ->
         [s |-> 0, m |-> <<8408, 14700, 9585, 138>>, e |-> -57]
      [] x = [s |-> 0, m |-> <<20608, 25516, 17798, 151>>, e |-> -57] ->
         [s |-> 0, m |-> <<31695, 31644, 16665, 151>>, e |-> -57]
      [] x = [s |-> 0, m |-> <<12890, 10214, 10386, 168>>, e |-> -57] ->
         [s |-> 0, m |-> <<20010, 6223, 8834, 168>>, e |-> -57]
      [] x = [s |-> 0, m |-> <<32269, 736, 9785, 178>>, e |-> -57] ->
         [s |-> 0, m |-> <<23204, 2799, 7940, 178>>, e |-> -57]
      [] x = [s |-> 0, m |-> <<20766, 17106, 10158, 178>>, e |-> -57] ->
         [s |-> 0, m |-> <<1234, 7575, 8313, 178>>, e |-> -57]
      [] x = [s |-> 0, m |-> <<7923, 22059, 12808, 178>>, e |-> -57] ->
         [s |-> 0, m |-> <<1428, 28522, 10960, 178>>, e |-> -57]
      [] x = [s |-> 0, m |-> <<30444, 10690, 12824, 178>>, e |-> -57] ->
         [s |-> 0, m |-> <<11437, 16667, 10976, 178>>, e |-> -57]
      [] x = [s |-> 0, m |-> <<12585, 10872, 12826, 178>>, e |-> -57] ->
         [s |-> 0, m |-> <<15943, 16786, 10978, 178>>, e |-> -57]
      [] x = [s |-> 0, m |-> <<21150, 8325, 12829, 178>>, e |-> -57] ->
         [s |-> 0, m |-> <<30955, 14148, 10981, 178>>, e |-> -57]
      [] x = [s |-> 0, m |-> <<22146, 26792, 19553, 213>>, e |-> -57] ->
         [s |-> 0, m |-> <<1959, 1111, 16382, 213>>, e |-> -57]
      [] x = [s |-> 0, m |-> <<27606, 26359, 15271, 214>>, e |-> -57] ->
         [s |-> 0, m |-> <<18702, 4575, 12061, 214>>, e |-> -57]
      [] x = [s |-> 0, m |-> <<19440, 14119, 3286, 223>>, e |-> -57] ->
         [s |-> 0, m |-> <<22930, 6853, 32440, 222>>, e |-> -57]
      [] x = [s |-> 0, m |-> <<16800, 17875, 23431, 229>>, e |-> -57] ->
         [s |-> 0, m |-> <<8471, 8360, 19486, 229>>, e |-> -57]
      [] x = [s |-> 0, m |-> <<6720, 26340, 22091, 232>>, e |-> -57] ->
         [s |-> 0, m |-> <<25154, 3011, 17992, 232>>, e |-> -57]
      [] x = [s |-> 0, m |-> <<15561, 23475, 29255, 232>>, e |-> -57] ->
         [s |-> 0, m |-> <<7414, 14364, 25144, 232>>, e |-> -57]
      [] x = [s |-> 0, m |-> <<8933, 18673, 21846, 242>>, e |-> -57] ->
         [s |-> 0, m |-> <<22713, 23302, 17195, 242>>, e |-> -57]
      [] x = [s |-> 0, m |-> <<14769, 2619, 21847, 242>>, e |-> -57] ->
         [s |-> 0, m |-> <<17921, 7219, 17196, 242>>, e |-> -57]
      [] x = [s |-> 0, m |-> <<8506, 14090, 21847, 242>>, e |-> -57] ->
         [s |-> 0, m |-> <<7559, 18670, 17196, 242>>, e |-> -57]
      [] x = [s |-> 0, m |-> <<1367, 5315, 21850, 242>>, e |-> -57] ->
         [s |-> 0, m |-> <<30739, 9737, 17199, 242>>, e |-> -57]
      [] x = [s |-> 0, m |-> <<7789, 24219, 22312, 242>>, e |-> -57] ->
         [s |-> 0, m |-> <<31141, 2046, 17661, 242>>, e |-> -57]
      [] x = [s |-> 0, m |-> <<14930, 30555, 22377, 242>>, e |-> -57] ->
         [s |-> 0, m |-> <<23666, 4634, 17726, 242>>, e |-> -57]
      [] x = [s |-> 0, m |-> <<9933, 323, 23665, 242>>, e |-> -57] ->
         [s |-> 0, m |-> <<14558, 31458, 19010, 242>>, e |-> -57]
      [] x = [s |-> 0, m |-> <<4327, 5617, 20236, 129>>, e |-> -56] ->
         [s |-> 0, m |-> <<18746, 7702, 17401, 129>>, e |-> -56]
      [] x = [s |-> 0, m |-> <<25688, 9190, 31168, 145>>, e |-> -56] ->
         [s |-> 0, m |-> <<16815, 3655, 27121, 145>>, e |-> -56]
      [] x = [s |-> 0, m |-> <<26064, 10845, 5074, 151>>, e |-> -56] ->
         [s |-> 0, m |-> <<18300, 24243, 578, 151>>, e |-> -56]
      [] x = [s |-> 0, m |-> <<25335, 30182, 5699, 174>>, e |-> -56] ->
         [s |-> 0, m |-> <<12386, 13431, 31590, 173>>, e |-> -56]
      [] x = [s |-> 0, m |-> <<2810, 12067, 10635, 174>>, e |-> -56] ->
         [s |-> 0, m |-> <<15086, 125, 3740, 174>>, e |-> -56]
      [] x = [s |-> 0, m |-> <<16867, 20278, 13117, 174>>, e |-> -56] ->
         [s |-> 0, m |-> <<23706, 8637, 6213, 174>>, e |-> -56]
      [] x = [s |-> 0, m |-> <<31984, 27516, 28148, 175>>, e |-> -56] ->
         [s |-> 0, m |-> <<29884, 27085, 21069, 175>>, e |-> -56]
      [] x = [s |-> 0, m |-> <<17543, 5582, 23649, 178>>, e |-> -56] ->
         [s |-> 0, m |-> <<258, 29061, 16218, 178>>, e |-> -56]
      [] x = [s |-> 0, m |-> <<4776, 29212, 12427, 181>>, e |-> -56] ->
         [s |-> 0, m |-> <<2820, 9281, 4661, 181>>, e |-> -56]
      [] x = [s |-> 0, m |-> <<32751, 20294, 31059, 182>>, e |-> -56] ->
         [s |-> 0, m |-> <<705, 26784, 23089, 182>>, e |-> -56]
      [] x = [s |-> 0, m |-> <<28926, 23159, 25086, 183>>, e |-> -56] ->
         [s |-> 0, m |-> <<32060, 19252, 17009, 183>>, e |-> -56]
      [] x = [s |-> 0, m |-> <<3777, 7716, 30107, 183>>, e |-> -56] ->
         [s |-> 0, m |-> <<20743, 29555, 22009, 183>>, e |-> -56]
      [] x = [s |-> 0, m |-> <<14592, 6168, 16350, 193>>, e |-> -56] ->
         [s |-> 0, m |-> <<23597, 28080, 6920, 193>>, e |-> -56]
      [] x = [s |-> 0, m |-> <<670, 31462, 24298, 210>>, e |-> -56] ->
         [s |-> 0, m |-> <<15316, 20396, 12118, 210>>, e |-> -56]
      [] x = [s |-> 0, m |-> <<13120, 27250, 13754, 226>>, e |-> -56] ->
         [s |-> 0, m |-> <<9336, 32226, 31417, 225>>, e |-> -56]
      [] x = [s |-> 0, m |-> <<12176, 9852, 30717, 227>>, e |-> -56] ->
         [s |-> 0, m |-> <<11639, 26313, 15306, 227>>, e |-> -56]
      [] x = [s |-> 0, m |-> <<19118, 4987, 29308, 241>>, e |-> -56] ->
         [s |-> 0, m |-> <<25321, 12669, 10891, 241>>, e |-> -56]
      [] x = [s |-> 0, m |-> <<11726, 47, 10969, 250>>, e |-> -56] ->
         [s |-> 0, m |-> <<9705, 12092, 23325, 249>>, e |-> -56]
      [] x = [s |-> 0, m |-> <<5407, 30283, 10970, 250>>, e |-> -56] ->
         [s |-> 0, m |-> <<528, 9090, 23327, 249>>, e |-> -56]
      [] x = [s |-> 0, m |-> <<5967, 7986, 10972, 250>>, e |-> -56] ->
         [s |-> 0, m |-> <<13628, 19238, 23328, 249>>, e |-> -56]
      [] x = [s |-> 0, m |-> <<12733, 17783, 10982, 250>>, e |-> -56] ->
         [s |-> 0, m |-> <<20171, 26517, 23338, 249>>, e |-> -56]
      [] x = [s |-> 0, m |-> <<10522, 7157, 12726, 250>>, e |-> -56] ->
         [s |-> 0, m |-> <<31415, 15471, 25069, 249>>, e |-> -56]
      [] x = [s |-> 0, m |-> <<14506, 31578, 12971, 250>>, e |-> -56] ->
         [s |-> 0, m |-> <<8281, 12551, 25313, 249>>, e |-> -56]
      [] x = [s |-> 0, m |-> <<11080, 31795, 9880, 133>>, e |-> -55] ->
         [s |-> 0, m |-> <<9958, 18633, 30322, 132>>, e |-> -55]
      [] x = [s |-> 0, m |-> <<31362, 9174, 23627, 134>>, e |-> -55] ->
         [s |-> 0, m |-> <<5573, 3803, 10903, 134>>, e |-> -55]
      [] x = [s |-> 0, m |-> <<32064, 28886, 30519, 148>>, e |-> -55] ->
         [s |-> 0, m |-> <<11263, 31345, 13332, 148>>, e |-> -55]
      [] x = [s |-> 0, m |-> <<2700, 10803, 23544, 149>>, e |-> -55] ->
         [s |-> 0, m |-> <<4743, 21359, 6083, 149>>, e |-> -55]
      [] x = [s |-> 0, m |-> <<7405, 2122, 17895, 151>>, e |-> -55] ->
         [s |-> 0, m |-> <<30386, 19767, 32555, 150>>, e |-> -55]
      [] x = [s |-> 0, m |-> <<8365, 22864, 6879, 152>>, e |-> -55] ->
         [s |-> 0, m |-> <<6711, 13540, 21301, 151>>, e |-> -55]
      [] x = [s |-> 0, m |-> <<25459, 31183, 8250, 152>>, e |-> -55] ->
         [s |-> 0, m |-> <<30234, 17765, 22657, 151>>, e |-> -55]
      [] x = [s |-> 0, m |-> <<2820, 31186, 8250, 152>>, e |-> -55] ->
         [s |-> 0, m |-> <<6760, 17768, 22657, 151>>, e |-> -55]
      [] x = [s |-> 0, m |-> <<27007, 32285, 16825, 152>>, e |-> -55] ->
         [s |-> 0, m |-> <<32353, 26371, 31137, 151>>, e |-> -55]
      [] x = [s |-> 0, m |-> <<5984, 15791, 24191, 154>>, e |-> -55] ->
         [s |-> 0, m |-> <<31056, 13326, 4916, 154>>, e |-> -55]
      [] x = [s |-> 0, m |-> <<20736, 9645, 17439, 163>>, e |-> -55] ->
         [s |-> 0, m |-> <<25906, 22498, 27458, 162>>, e |-> -55]
      [] x = [s |-> 0, m |-> <<11412, 31619, 23600, 168>>, e |-> -55] ->
         [s |-> 0, m |-> <<14482, 29710, 31387, 167>>, e |-> -55]
      [] x = [s |-> 0, m |-> <<9772, 14100, 18551, 171>>, e |-> -55] ->
         [s |-> 0, m |-> <<26714, 1097, 25054, 170>>, e |-> -55]
      [] x = [s |-> 0, m |-> <<25916, 31220, 18988, 172>>, e |-> -55] ->
         [s |-> 0, m |-> <<4815, 27461, 25023, 171>>, e |-> -55]
      [] x = [s |-> 0, m |-> <<12042, 12640, 23243, 172>>, e |-> -55] ->
         [s |-> 0, m |-> <<5885, 31042, 29217, 171>>, e |-> -55]
      [] x = [s |-> 0, m |-> <<10366, 17799, 29442, 172>>, e |-> -55] ->
         [s |-> 0, m |-> <<7592, 1464, 2561, 172>>, e |-> -55]
      [] x = [s |-> 0, m |-> <<20988, 2777, 6217, 174>>, e |-> -55] ->
         [s |-> 0, m |-> <<7949, 13352, 11497, 173>>, e |-> -55]
      [] x = [s |-> 0, m |-> <<29113, 11656, 24649, 177>>, e |-> -55] ->
         [s |-> 0, m |-> <<28339, 5656, 28210, 176>>, e |-> -55]
      [] x = [s |-> 0, m |-> <<29310, 9028, 31113, 177>>, e |-> -55] ->
         [s |-> 0, m |-> <<25518, 27630, 1808, 177>>, e |-> -55]
      [] x = [s |-> 0, m |-> <<17532, 5582, 23649, 178>>, e |-> -55] ->
         [s |-> 0, m |-> <<29566, 31766, 26729, 177>>, e |-> -55]
      [] x = [s |-> 0, m |-> <<1997, 12324, 3917, 180>>, e |-> -55] ->
         [s |-> 0, m |-> <<18580, 28298, 6296, 179>>, e |-> -55]
      [] x = [s |-> 0, m |-> <<12349, 24293, 18510, 184>>, e |-> -55] ->
         [s |-> 0, m |-> <<21221, 26310, 18586, 183>>, e |-> -55]
      [] x = [s |-> 0, m |-> <<1920, 18203, 31259, 186>>, e |-> -55] ->
         [s |-> 0, m |-> <<29998, 941, 30051, 185>>, e |-> -55]
      [] x = [s |-> 0, m |-> <<4504, 28709, 16774, 191>>, e |-> -55] ->
         [s |-> 0, m |-> <<22853, 7160, 13023, 190>>, e |-> -55]
      [] x = [s |-> 0, m |-> <<10160, 20387, 8064, 196>>, e |-> -55] ->
         [s |-> 0, m |-> <<13391, 19668, 1540, 195>>, e |-> -55]
      [] x = [s |-> 0, m |-> <<22404, 5190, 3999, 214>>, e |-> -55] ->
         [s |-> 0, m |-> <<12323, 32322, 18515, 212>>, e |-> -55]
      [] x = [s |-> 0, m |-> <<13789, 16285, 10752, 217>>, e |-> -55] ->
         [s |-> 0, m |-> <<29720, 19475, 22946, 215>>, e |-> -55]
      [] x = [s |-> 0, m |-> <<22375, 22156, 31469, 222>>, e |-> -55] ->
         [s |-> 0, m |-> <<18251, 32104, 6646, 221>>, e |-> -55]
      [] x = [s |-> 0, m |-> <<31928, 27461, 10188, 223>>, e |-> -55] ->
         [s |-> 0, m |-> <<5476, 16274, 17862, 221>>, e |-> -55]
      [] x = [s |-> 0, m |-> <<3934, 27462, 10188, 223>>, e |-> -55] ->
         [s |-> 0, m |-> <<10137, 16274, 17862, 221>>, e |-> -55]
      [] x = [s |-> 0, m |-> <<17752, 1542, 10262, 223>>, e |-> -55] ->
         [s |-> 0, m |-> <<19610, 31840, 17933, 221>>, e |-> -55]
      [] x = [s |-> 0, m |-> <<2768, 32148, 10904, 223>>, e |-> -55] ->
         [s |-> 0, m |-> <<28987, 22162, 18561, 221>>, e |-> -55]
      [] x = [s |-> 0, m |-> <<1664, 11584, 8125, 231>>, e |-> -55] ->
         [s |-> 0, m |-> <<19094, 15261, 9418, 229>>, e |-> -55]
      [] x = [s |-> 0, m |-> <<25481, 11585, 8125, 231>>, e |-> -55] ->
         [s |-> 0, m |-> <<8706, 15263, 9418, 229>>, e |-> -55]
      [] x = [s |-> 0, m |-> <<24004, 20192, 8344, 231>>, e |-> -55] ->
         [s |-> 0, m |-> <<28829, 5275, 9632, 229>>, e |-> -55]
      [] x = [s |-> 0, m |-> <<8432, 28886, 35, 232>>, e |-> -55] ->
         [s |-> 0, m |-> <<22204, 11387, 700, 230>>, e |-> -55]
      [] x = [s |-> 0, m |-> <<30440, 30281, 20610, 240>>, e |-> -55] ->
         [s |-> 0, m |-> <<15034, 14383, 13779, 238>>, e |-> -55]
      [] x = [s |-> 0, m |-> <<12888, 8700, 1105, 131>>, e |-> -54] ->
         [s |-> 0, m |-> <<6393, 3568, 19923, 129>>, e |-> -54]
      [] x = [s |-> 0, m |-> <<24336, 20526, 28297, 131>>, e |-> -54] ->
         [s |-> 0, m |-> <<10667, 6910, 13456, 130>>, e |-> -54]
      [] x = [s |-> 0, m |-> <<20113, 28109, 28331, 132>>, e |-> -54] ->
         [s |-> 0, m |-> <<30279, 12089, 12400, 131>>, e |-> -54]
      [] x = [s |-> 0, m |-> <<32672, 20301, 1358, 141>>, e |-> -54] ->
         [s |-> 0, m |-> <<4276, 918, 8664, 139>>, e |-> -54]
      [] x = [s |-> 0, m |-> <<4723, 13091, 10955, 144>>, e |-> -54] ->
         [s |-> 0, m |-> <<23171, 17519, 14097, 142>>, e |-> -54]
      [] x = [s |-> 0, m |-> <<14466, 27005, 7187, 148>>, e |-> -54] ->
         [s |-> 0, m |-> <<25626, 14433, 5169, 146>>, e |-> -54]
      [] x = [s |-> 0, m |-> <<29478, 18330, 28587, 150>>, e |-> -54] ->
         [s |-> 0, m |-> <<22667, 1636, 22887, 148>>, e |-> -54]
      [] x = [s |-> 0, m |-> <<21839, 29718, 5695, 153>>, e |-> -54] ->
         [s |-> 0, m |-> <<28242, 14797, 29463, 150>>, e |-> -54]
      [] x = [s |-> 0, m |-> <<15860, 31414, 5695, 153>>, e |-> -54] ->
         [s |-> 0, m |-> <<11627, 16418, 29463, 150>>, e |-> -54]
      [] x = [s |-> 0, m |-> <<2924, 10679, 5696, 153>>, e |-> -54] ->
         [s |-> 0, m |-> <<16300, 27916, 29463, 150>>, e |-> -54]
      [] x = [s |-> 0, m |-> <<5229, 10750, 5696, 153>>, e |-> -54] ->
         [s |-> 0, m |-> <<13467, 27984, 29463, 150>>, e |-> -54]
      [] x = [s |-> 0, m |-> <<8697, 10759, 5696, 153>>, e |-> -54] ->
         [s |-> 0, m |-> <<3682, 27993, 29463, 150>>, e |-> -54]
      [] x = [s |-> 0, m |-> <<17484, 10772, 5696, 153>>, e |-> -54] ->
         [s |-> 0, m |-> <<25925, 28005, 29463, 150>>, e |-> -54]
      [] x = [s |-> 0, m |-> <<10426, 22522, 4690, 154>>, e |-> -54] ->
         [s |-> 0, m |-> <<19431, 16964, 27038, 151>>, e |-> -54]
      [] x = [s |-> 0, m |-> <<22807, 16827, 2718, 157>>, e |-> -54] ->
         [s |-> 0, m |-> <<4621, 1967, 20651, 154>>, e |-> -54]
      [] x = [s |-> 0, m |-> <<25327, 31743, 7695, 162>>, e |-> -54] ->
         [s |-> 0, m |-> <<3798, 6610, 17486, 159>>, e |-> -54]
      [] x = [s |-> 0, m |-> <<8060, 18326, 20427, 162>>, e |-> -54] ->
         [s |-> 0, m |-> <<1932, 15342, 29582, 159>>, e |-> -54]
      [] x = [s |-> 0, m |-> <<32068, 26598, 23927, 163>>, e |-> -54] ->
         [s |-> 0, m |-> <<1010, 10490, 31256, 160>>, e |-> -54]
      [] x = [s |-> 0, m |-> <<7344, 24266, 24644, 164>>, e |-> -54] ->
         [s |-> 0, m |-> <<8401, 4344, 30265, 161>>, e |-> -54]
      [] x = [s |-> 0, m |-> <<7804, 2461, 8712, 165>>, e |-> -54] ->
         [s |-> 0, m |-> <<11123, 22767, 13465, 162>>, e |-> -54]
      [] x = [s |-> 0, m |-> <<11825, 14597, 18299, 165>>, e |-> -54] ->
         [s |-> 0, m |-> <<13325, 2054, 22557, 162>>, e |-> -54]
      [] x = [s |-> 0, m |-> <<140, 21219, 4505, 166>>, e |-> -54] ->
         [s |-> 0, m |-> <<7185, 16380, 7776, 163>>, e |-> -54]
      [] x = [s |-> 0, m |-> <<2976, 20830, 14945, 168>>, e |-> -54] ->
         [s |-> 0, m |-> <<4335, 17551, 14196, 165>>, e |-> -54]
      [] x = [s |-> 0, m |-> <<2638, 4791, 6811, 170>>, e |-> -54] ->
         [s |-> 0, m |-> <<21413, 7881, 2951, 167>>, e |-> -54]
      [] x = [s |-> 0, m |-> <<2639, 4791, 6811, 170>>, e |-> -54] ->
         [s |-> 0, m |-> <<21414, 7881, 2951, 167>>, e |-> -54]
      [] x = [s |-> 0, m |-> <<2640, 4791, 6811, 170>>, e |-> -54] ->
         [s |-> 0, m |-> <<21415, 7881, 2951, 167>>, e |-> -54]
      [] x = [s |-> 0, m |-> <<12299, 3931, 7390, 172>>, e |-> -54] ->
         [s |-> 0, m |-> <<15868, 23875, 32635, 168>>, e |-> -54]
      [] x = [s |-> 0, m |-> <<19081, 7925, 8928, 173>>, e |-> -54] ->
         [s |-> 0, m |-> <<32191, 20033, 32239, 169>>, e |-> -54]
      [] x = [s |-> 0, m |-> <<1327, 30563, 19227, 174>>, e |-> -54] ->
         [s |-> 0, m |-> <<4780, 2724, 7310, 171>>, e |-> -54]
      [] x = [s |-> 0, m |-> <<25868, 5767, 30169, 174>>, e |-> -54] ->
         [s |-> 0, m |-> <<10741, 5924, 17620, 171>>, e |-> -54]
      [] x = [s |-> 0, m |-> <<19068, 25286, 24429, 175>>, e |-> -54] ->
         [s |-> 0, m |-> <<2145, 12305, 10311, 172>>, e |-> -54]
      [] x = [s |-> 0, m |-> <<23050, 25299, 24429, 175>>, e |-> -54] ->
         [s |-> 0, m |-> <<13812, 12317, 10311, 172>>, e |-> -54]
      [] x = [s |-> 0, m |-> <<23523, 8059, 24780, 175>>, e |-> -54] ->
         [s |-> 0, m |-> <<267, 13225, 10641, 172>>, e |-> -54]
      [] x = [s |-> 0, m |-> <<31753, 21230, 12716, 177>>, e |-> -54] ->
         [s |-> 0, m |-> <<23939, 11238, 28197, 173>>, e |-> -54]
      [] x = [s |-> 0, m |-> <<25408, 24515, 26159, 179>>, e |-> -54] ->
         [s |-> 0, m |-> <<21362, 4251, 4116, 176>>, e |-> -54]
      [] x = [s |-> 0, m |-> <<5072, 6162, 3557, 181>>, e |-> -54] ->
         [s |-> 0, m |-> <<23489, 15038, 11642, 177>>, e |-> -54]
      [] x = [s |-> 0, m |-> <<27985, 7206, 11362, 188>>, e |-> -54] ->
         [s |-> 0, m |-> <<10402, 32463, 4174, 184>>, e |-> -54]
      [] x = [s |-> 0, m |-> <<29722, 2250, 24692, 188>>, e |-> -54] ->
         [s |-> 0, m |-> <<2387, 4317, 16611, 184>>, e |-> -54]
      [] x = [s |-> 0, m |-> <<16447, 5425, 24692, 188>>, e |-> -54] ->
         [s |-> 0, m |-> <<12155, 7278, 16611, 184>>, e |-> -54]
      [] x = [s |-> 0, m |-> <<6286, 10997, 4848, 189>>, e |-> -54] ->
         [s |-> 0, m |-> <<6421, 7843, 28665, 184>>, e |-> -54]
      [] x = [s |-> 0, m |-> <<14847, 13442, 21996, 190>>, e |-> -54] ->
         [s |-> 0, m |-> <<12259, 25156, 9650, 186>>, e |-> -54]
      [] x = [s |-> 0, m |-> <<14856, 13442, 21996, 190>>, e |-> -54] ->
         [s |-> 0, m |-> <<12267, 25156, 9650, 186>>, e |-> -54]
      [] x = [s |-> 0, m |-> <<14406, 5252, 21999, 190>>, e |-> -54] ->
         [s |-> 0, m |-> <<16283, 10789, 9653, 186>>, e |-> -54]
      [] x = [s |-> 0, m |-> <<11776, 4895, 22209, 191>>, e |-> -54] ->
         [s |-> 0, m |-> <<18582, 918, 7591, 187>>, e |-> -54]
      [] x = [s |-> 0, m |-> <<12018, 29708, 19992, 192>>, e |-> -54] ->
         [s |-> 0, m |-> <<15893, 17030, 3248, 188>>, e |-> -54]
      [] x = [s |-> 0, m |-> <<26261, 1066, 21900, 192>>, e |-> -54] ->
         [s |-> 0, m |-> <<17881, 7911, 5022, 188>>, e |-> -54]
      [] x = [s |-> 0, m |-> <<5143, 7053, 22859, 192>>, e |-> -54] ->
         [s |-> 0, m |-> <<14383, 9791, 5914, 188>>, e |-> -54]
      [] x = [s |-> 0, m |-> <<4804, 26836, 15736, 193>>, e |-> -54] ->
         [s |-> 0, m |-> <<25833, 22757, 29757, 188>>, e |-> -54]
      [] x = [s |-> 0, m |-> <<29192, 6220, 29919, 193>>, e |-> -54] ->
         [s |-> 0, m |-> <<17131, 6949, 10169, 189>>, e |-> -54]
      [] x = [s |-> 0, m |-> <<21252, 9190, 27222, 195>>, e |-> -54] ->
         [s |-> 0, m |-> <<608, 13401, 2975, 191>>, e |-> -54]
      [] x = [s |-> 0, m |-> <<2324, 27810, 27524, 196>>, e |-> -54] ->
         [s |-> 0, m |-> <<8500, 4981, 876, 192>>, e |-> -54]
      [] x = [s |-> 0, m |-> <<25412, 20693, 14983, 198>>, e |-> -54] ->
         [s |-> 0, m |-> <<29616, 1246, 17203, 193>>, e |-> -54]
      [] x = [s |-> 0, m |-> <<28843, 655, 24964, 203>>, e |-> -54] ->
         [s |-> 0, m |-> <<26556, 7579, 13945, 198>>, e |-> -54]
      [] x = [s |-> 0, m |-> <<13782, 21674, 16940, 204>>, e |-> -54] ->
         [s |-> 0, m |-> <<23786, 31678, 3980, 199>>, e |-> -54]
      [] x = [s |-> 0, m |-> <<23014, 12934, 13964, 209>>, e |-> -54] ->
         [s |-> 0, m |-> <<25488, 22478, 20806, 203>>, e |-> -54]
      [] x = [s |-> 0, m |-> <<17690, 17744, 13965, 209>>, e |-> -54] ->
         [s |-> 0, m |-> <<20518, 24188, 20807, 203>>, e |-> -54]
      [] x = [s |-> 0, m |-> <<12297, 2057, 13966, 209>>, e |-> -54] ->
         [s |-> 0, m |-> <<12296, 7092, 20808, 203>>, e |-> -54]
      [] x = [s |-> 0, m |-> <<20706, 3263, 13967, 209>>, e |-> -54] ->
         [s |-> 0, m |-> <<30123, 5495, 20809, 203>>, e |-> -54]
      [] x = [s |-> 0, m |-> <<23780, 3560, 13967, 209>>, e |-> -54] ->
         [s |-> 0, m |-> <<16525, 5768, 20809, 203>>, e |-> -54]
      [] x = [s |-> 0, m |-> <<17944, 13699, 13967, 209>>, e |-> -54] ->
         [s |-> 0, m |-> <<30214, 15070, 20809, 203>>, e |-> -54]
      [] x = [s |-> 0, m |-> <<7081, 27364, 13967, 209>>, e |-> -54] ->
         [s |-> 0, m |-> <<10514, 27608, 20809, 203>>, e |-> -54]
      [] x = [s |-> 0, m |-> <<8056, 15229, 13973, 209>>, e |-> -54] ->
         [s |-> 0, m |-> <<6431, 255, 20815, 203>>, e |-> -54]
      [] x = [s |-> 0, m |-> <<8446, 11184, 13975, 209>>, e |-> -54] ->
         [s |-> 0, m |-> <<15873, 23905, 20816, 203>>, e |-> -54]
      [] x = [s |-> 0, m |-> <<28216, 20251, 14132, 209>>, e |-> -54] ->
         [s |-> 0, m |-> <<20703, 1027, 20961, 203>>, e |-> -54]
      [] x = [s |-> 0, m |-> <<10314, 2849, 14923, 209>>, e |-> -54] ->
         [s |-> 0, m |-> <<3836, 9171, 21686, 203>>, e |-> -54]
      [] x = [s |-> 0, m |-> <<29594, 19685, 14926, 209>>, e |-> -54] ->
         [s |-> 0, m |-> <<17878, 16506, 21689, 203>>, e |-> -54]
      [] x = [s |-> 0, m |-> <<11069, 23812, 16833, 209>>, e |-> -54] ->
         [s |-> 0, m |-> <<22024, 7026, 23439, 203>>, e |-> -54]
      [] x = [s |-> 0, m |-> <<15227, 2702, 3906, 212>>, e |-> -54] ->
         [s |-> 0, m |-> <<32118, 28086, 3375, 206>>, e |-> -54]
      [] x = [s |-> 0, m |-> <<32361, 10514, 1215, 216>>, e |-> -54] ->
         [s |-> 0, m |-> <<876, 6437, 22393, 209>>, e |-> -54]
      [] x = [s |-> 0, m |-> <<30333, 27189, 24963, 217>>, e |-> -54] ->
         [s |-> 0, m |-> <<24478, 24132, 8377, 211>>, e |-> -54]
      [] x = [s |-> 0, m |-> <<17596, 19241, 6267, 219>>, e |-> -54] ->
         [s |-> 0, m |-> <<3240, 14062, 18249, 212>>, e |-> -54]
      [] x = [s |-> 0, m |-> <<18531, 29168, 6557, 219>>, e |-> -54] ->
         [s |-> 0, m |-> <<25807, 17433, 18513, 212>>, e |-> -54]
      [] x = [s |-> 0, m |-> <<26153, 29168, 6557, 219>>, e |-> -54] ->
         [s |-> 0, m |-> <<32741, 17433, 18513, 212>>, e |-> -54]
      [] x = [s |-> 0, m |-> <<26776, 30361, 11926, 220>>, e |-> -54] ->
         [s |-> 0, m |-> <<21429, 16732, 20422, 213>>, e |-> -54]
      [] x = [s |-> 0, m |-> <<19504, 32650, 18666, 221>>, e |-> -54] ->
         [s |-> 0, m |-> <<3652, 32326, 23539, 214>>, e |-> -54]
      [] x = [s |-> 0, m |-> <<14620, 14347, 19318, 221>>, e |-> -54] ->
         [s |-> 0, m |-> <<21136, 12098, 24131, 214>>, e |-> -54]
      [] x = [s |-> 0, m |-> <<28810, 28979, 24227, 224>>, e |-> -54] ->
         [s |-> 0, m |-> <<23941, 20024, 19390, 217>>, e |-> -54]
      [] x = [s |-> 0, m |-> <<12932, 10146, 26666, 225>>, e |-> -54] ->
         [s |-> 0, m |-> <<18447, 25464, 18475, 218>>, e |-> -54]
      [] x = [s |-> 0, m |-> <<20716, 5849, 32400, 225>>, e |-> -54] ->
         [s |-> 0, m |-> <<25473, 17599, 23660, 218>>, e |-> -54]
      [] x = [s |-> 0, m |-> <<32, 30666, 4587, 229>>, e |-> -54] ->
         [s |-> 0, m |-> <<29867, 21669, 18583, 221>>, e |-> -54]
      [] x = [s |-> 0, m |-> <<26680, 5066, 17344, 237>>, e |-> -54] ->
         [s |-> 0, m |-> <<4875, 19179, 3280, 229>>, e |-> -54]
      [] x = [s |-> 0, m |-> <<28455, 17147, 11134, 245>>, e |-> -54] ->
         [s |-> 0, m |-> <<3672, 6308, 1905, 236>>, e |-> -54]
      [] x = [s |-> 0, m |-> <<28487, 6390, 3138, 130>>, e |-> -53] ->
         [s |-> 0, m |-> <<5046, 15965, 4457, 249>>, e |-> -54]
      [] x = [s |-> 0, m |-> <<9404, 13544, 4614, 130>>, e |-> -53] ->
         [s |-> 0, m |-> <<12633, 22710, 7036, 249>>, e |-> -54]
      [] x = [s |-> 0, m |-> <<10264, 28214, 15088, 130>>, e |-> -53] ->
         [s |-> 0, m |-> <<24036, 2508, 25330, 249>>, e |-> -54]
      [] x = [s |-> 0, m |-> <<6946, 23860, 15150, 130>>, e |-> -53] ->
         [s |-> 0, m |-> <<1491, 2890, 25438, 249>>, e |-> -54]
      [] x = [s |-> 0, m |-> <<21007, 21457, 15158, 130>>, e |-> -53] ->
         [s |-> 0, m |-> <<13931, 30378, 25451, 249>>, e |-> -54]
      [] x = [s |-> 0, m |-> <<9543, 6712, 15170, 130>>, e |-> -53] ->
         [s |-> 0, m |-> <<2264, 3007, 25472, 249>>, e |-> -54]
      [] x = [s |-> 0, m |-> <<565, 6330, 23287, 131>>, e |-> -53] ->
         [s |-> 0, m |-> <<8304, 716, 31218, 251>>, e |-> -54]
      [] x = [s |-> 0, m |-> <<11967, 7224, 30563, 132>>, e |-> -53] ->
         [s |-> 0, m |-> <<20789, 21665, 2539, 254>>, e |-> -54]
      [] x = [s |-> 0, m |-> <<5851, 18089, 31393, 132>>, e |-> -53] ->
         [s |-> 0, m |-> <<27192, 12418, 3981, 254>>, e |-> -54]
      [] x = [s |-> 0, m |-> <<8924, 12973, 16623, 133>>, e |-> -53] ->
         [s |-> 0, m |-> <<30272, 8051, 2443, 255>>, e |-> -54]
      [] x = [s |-> 0, m |-> <<29541, 28762, 1352, 134>>, e |-> -53] ->
         [s |-> 0, m |-> <<32767, 32767, 32767, 255>>, e |-> -54]
      [] x = [s |-> 0, m |-> <<13918, 13781, 4065, 137>>, e |-> -53] ->
         [s |-> 0, m |-> <<2469, 21906, 21640, 130>>, e |-> -53]
      [] x = [s |-> 0, m |-> <<16865, 21194, 1091, 148>>, e |-> -53] ->
         [s |-> 0, m |-> <<4314, 22620, 30155, 139>>, e |-> -53]
      [] x = [s |-> 0, m |-> <<26671, 21252, 1091, 148>>, e |-> -53] ->
         [s |-> 0, m |-> <<31211, 22668, 30155, 139>>, e |-> -53]
      [] x = [s |-> 0, m |-> <<27494, 60, 1799, 148>>, e |-> -53] ->
         [s |-> 0, m |-> <<10049, 838, 30748, 139>>, e |-> -53]
      [] x = [s |-> 0, m |-> <<30955, 28288, 3139, 154>>, e |-> -53] ->
         [s |-> 0, m |-> <<2191, 24811, 31372, 144>>, e |-> -53]
      [] x = [s |-> 0, m |-> <<17794, 21554, 19123, 154>>, e |-> -53] ->
         [s |-> 0, m |-> <<9584, 20211, 11770, 145>>, e |-> -53]
      [] x = [s |-> 0, m |-> <<23, 9527, 13360, 158>>, e |-> -53] ->
         [s |-> 0, m |-> <<27574, 13850, 16080, 148>>, e |-> -53]
      [] x = [s |-> 0, m |-> <<14121, 23746, 13515, 159>>, e |-> -53] ->
         [s |-> 0, m |-> <<29269, 28402, 10093, 149>>, e |-> -53]
      [] x = [s |-> 0, m |-> <<20611, 30772, 13697, 159>>, e |-> -53] ->
         [s |-> 0, m |-> <<14617, 28806, 10241, 149>>, e |-> -53]
      [] x = [s |-> 0, m |-> <<29042, 30772, 13697, 159>>, e |-> -53] ->
         [s |-> 0, m |-> <<21466, 28806, 10241, 149>>, e |-> -53]
      [] x = [s |-> 0, m |-> <<14606, 1184, 20920, 160>>, e |-> -53] ->
         [s |-> 0, m |-> <<10921, 24969, 9901, 150>>, e |-> -53]
      [] x = [s |-> 0, m |-> <<7786, 25030, 6157, 168>>, e |-> -53] ->
         [s |-> 0, m |-> <<8423, 4835, 11379, 156>>, e |-> -53]
      [] x = [s |-> 0, m |-> <<16716, 11407, 6159, 168>>, e |-> -53] ->
         [s |-> 0, m |-> <<4698, 13174, 11380, 156>>, e |-> -53]
      [] x = [s |-> 0, m |-> <<23975, 29719, 9240, 168>>, e |-> -53] ->
         [s |-> 0, m |-> <<29449, 4934, 13820, 156>>, e |-> -53]
      [] x = [s |-> 0, m |-> <<28907, 10791, 30958, 170>>, e |-> -53] ->
         [s |-> 0, m |-> <<30687, 19730, 17076, 158>>, e |-> -53]
      [] x = [s |-> 0, m |-> <<13540, 24308, 13203, 172>>, e |-> -53] ->
         [s |-> 0, m |-> <<31596, 26805, 21742, 159>>, e |-> -53]
      [] x = [s |-> 0, m |-> <<24744, 7634, 19138, 173>>, e |-> -53] ->
         [s |-> 0, m |-> <<25279, 26412, 19171, 160>>, e |-> -53]
      [] x = [s |-> 0, m |-> <<27392, 28607, 21541, 176>>, e |-> -53] ->
         [s |-> 0, m |-> <<28734, 25206, 31684, 162>>, e |-> -53]
      [] x = [s |-> 0, m |-> <<21420, 25909, 10290, 195>>, e |-> -53] ->
         [s |-> 0, m |-> <<29964, 20102, 29808, 176>>, e |-> -53]
      [] x = [s |-> 0, m |-> <<8978, 26247, 3237, 199>>, e |-> -53] ->
         [s |-> 0, m |-> <<8979, 7233, 20509, 179>>, e |-> -53]
      [] x = [s |-> 0, m |-> <<14585, 4627, 15969, 200>>, e |-> -53] ->
         [s |-> 0, m |-> <<20246, 4623, 20073, 180>>, e |-> -53]
      [] x = [s |-> 0, m |-> <<11542, 10376, 2029, 201>>, e |-> -53] ->
         [s |-> 0, m |-> <<15307, 19710, 633, 181>>, e |-> -53]
      [] x = [s |-> 0, m |-> <<11543, 10376, 2029, 201>>, e |-> -53] ->
         [s |-> 0, m |-> <<15308, 19710, 633, 181>>, e |-> -53]
      [] x = [s |-> 0, m |-> <<11544, 10376, 2029, 201>>, e |-> -53] ->
         [s |-> 0, m |-> <<15308, 19710, 633, 181>>, e |-> -53]
      [] x = [s |-> 0, m |-> <<11545, 10376, 2029, 201>>, e |-> -53] ->
         [s |-> 0, m |-> <<15309, 19710, 633, 181>>, e |-> -53]
      [] x = [s |-> 0, m |-> <<5759, 26109, 17798, 203>>, e |-> -53] ->
         [s |-> 0, m |-> <<20884, 24403, 25077, 182>>, e |-> -53]
      [] x = [s |-> 0, m |-> <<4009, 774, 11666, 209>>, e |-> -53] ->
         [s |-> 0, m |-> <<10, 2261, 25825, 186>>, e |-> -53]
      [] x = [s |-> 0, m |-> <<23813, 821, 11666, 209>>, e |-> -53] ->
         [s |-> 0, m |-> <<18140, 2293, 25825, 186>>, e |-> -53]
      [] x = [s |-> 0, m |-> <<3383, 21273, 12039, 209>>, e |-> -53] ->
         [s |-> 0, m |-> <<4579, 18331, 26080, 186>>, e |-> -53]
      [] x = [s |-> 0, m |-> <<17240, 22059, 22165, 210>>, e |-> -53] ->
         [s |-> 0, m |-> <<16666, 8215, 22563, 187>>, e |-> -53]
      [] x = [s |-> 0, m |-> <<20666, 16451, 22686, 212>>, e |-> -53] ->
         [s |-> 0, m |-> <<29556, 18536, 1758, 189>>, e |-> -53]
      [] x = [s |-> 0, m |-> <<18294, 22648, 28511, 212>>, e |-> -53] ->
         [s |-> 0, m |-> <<24890, 25686, 5684, 189>>, e |-> -53]
      [] x = [s |-> 0, m |-> <<24149, 25637, 26301, 215>>, e |-> -53] ->
         [s |-> 0, m |-> <<18132, 3064, 4484, 191>>, e |-> -53]
      [] x = [s |-> 0, m |-> <<844, 27770, 26306, 215>>, e |-> -53] ->
         [s |-> 0, m |-> <<5314, 15172, 4487, 191>>, e |-> -53]
      [] x = [s |-> 0, m |-> <<16436, 10603, 26310, 215>>, e |-> -53] ->
         [s |-> 0, m |-> <<24157, 25410, 4489, 191>>, e |-> -53]
      [] x = [s |-> 0, m |-> <<32413, 14890, 26337, 215>>, e |-> -53] ->
         [s |-> 0, m |-> <<8614, 27000, 4507, 191>>, e |-> -53]
      [] x = [s |-> 0, m |-> <<15066, 28082, 30930, 215>>, e |-> -53] ->
         [s |-> 0, m |-> <<20886, 19400, 7562, 191>>, e |-> -53]
      [] x = [s |-> 0, m |-> <<22213, 7506, 31578, 215>>, e |-> -53] ->
         [s |-> 0, m |-> <<19532, 31632, 7992, 191>>, e |-> -53]
      [] x = [s |-> 0, m |-> <<11312, 27703, 10174, 216>>, e |-> -53] ->
         [s |-> 0, m |-> <<20768, 2861, 15542, 191>>, e |-> -53]
      [] x = [s |-> 0, m |-> <<8269, 20675, 9958, 218>>, e |-> -53] ->
         [s |-> 0, m |-> <<12936, 1081, 25940, 192>>, e |-> -53]
      [] x = [s |-> 0, m |-> <<22784, 25459, 3420, 221>>, e |-> -53] ->
         [s |-> 0, m |-> <<18791, 4747, 20399, 194>>, e |-> -53]
      [] x = [s |-> 0, m |-> <<2192, 19660, 3432, 221>>, e |-> -53] ->
         [s |-> 0, m |-> <<16419, 27051, 20406, 194>>, e |-> -53]
      [] x = [s |-> 0, m |-> <<28646, 23396, 3440, 221>>, e |-> -53] ->
         [s |-> 0, m |-> <<7038, 3169, 20412, 194>>, e |-> -53]
      [] x = [s |-> 0, m |-> <<4862, 1424, 3504, 221>>, e |-> -53] ->
         [s |-> 0, m |-> <<13826, 7785, 20453, 194>>, e |-> -53]
      [] x = [s |-> 0, m |-> <<1236, 2308, 14226, 221>>, e |-> -53] ->
         [s |-> 0, m |-> <<32063, 12263, 27413, 194>>, e |-> -53]
      [] x = [s |-> 0, m |-> <<8977, 5943, 15737, 221>>, e |-> -53] ->
         [s |-> 0, m |-> <<10807, 15209, 28393, 194>>, e |-> -53]
      [] x = [s |-> 0, m |-> <<5545, 15170, 13177, 223>>, e |-> -53] ->
         [s |-> 0, m |-> <<20537, 17822, 3518, 196>>, e |-> -53]
      [] x = [s |-> 0, m |-> <<10661, 24903, 2783, 225>>, e |-> -53] ->
         [s |-> 0, m |-> <<19398, 7795, 6056, 197>>, e |-> -53]
      [] x = [s |-> 0, m |-> <<1591, 3959, 12106, 225>>, e |-> -53] ->
         [s |-> 0, m |-> <<28962, 15473, 11997, 197>>, e |-> -53]
      [] x = [s |-> 0, m |-> <<22130, 17540, 13802, 226>>, e |-> -53] ->
         [s |-> 0, m |-> <<19058, 19209, 1124, 198>>, e |-> -53]
      [] x = [s |-> 0, m |-> <<11542, 32363, 13991, 226>>, e |-> -53] ->
         [s |-> 0, m |-> <<16331, 21044, 1244, 198>>, e |-> -53]
      [] x = [s |-> 0, m |-> <<23636, 32363, 13991, 226>>, e |-> -53] ->
         [s |-> 0, m |-> <<23995, 21044, 1244, 198>>, e |-> -53]
      [] x = [s |-> 0, m |-> <<32196, 4976, 13643, 227>>, e |-> -53] ->
         [s |-> 0, m |-> <<15286, 28785, 21739, 198>>, e |-> -53]
      [] x = [s |-> 0, m |-> <<17207, 2242, 26576, 228>>, e |-> -53] ->
         [s |-> 0, m |-> <<20254, 18520, 17698, 199>>, e |-> -53]
      [] x = [s |-> 0, m |-> <<8856, 14570, 2481, 229>>, e |-> -53] ->
         [s |-> 0, m |-> <<17388, 19410, 23128, 199>>, e |-> -53]
      [] x = [s |-> 0, m |-> <<9166, 13941, 25235, 229>>, e |-> -53] ->
         [s |-> 0, m |-> <<15592, 20124, 4572, 200>>, e |-> -53]
      [] x = [s |-> 0, m |-> <<5148, 1058, 29262, 229>>, e |-> -53] ->
         [s |-> 0, m |-> <<10841, 19350, 7082, 200>>, e |-> -53]
      [] x = [s |-> 0, m |-> <<12102, 7308, 2361, 230>>, e |-> -53] ->
         [s |-> 0, m |-> <<6740, 6048, 10737, 200>>, e |-> -53]
      [] x = [s |-> 0, m |-> <<13055, 17019, 18792, 230>>, e |-> -53] ->
         [s |-> 0, m |-> <<16123, 30228, 20954, 200>>, e |-> -53]
      [] x = [s |-> 0, m |-> <<29335, 10659, 30510, 231>>, e |-> -53] ->
         [s |-> 0, m |-> <<1266, 17747, 15723, 201>>, e |-> -53]
      [] x = [s |-> 0, m |-> <<2351, 14045, 30697, 231>>, e |-> -53] ->
         [s |-> 0, m |-> <<3705, 31673, 15838, 201>>, e |-> -53]
      [] x = [s |-> 0, m |-> <<14334, 14045, 30697, 231>>, e |-> -53] ->
         [s |-> 0, m |-> <<11097, 31673, 15838, 201>>, e |-> -53]
      [] x = [s |-> 0, m |-> <<23810, 17722, 13468, 232>>, e |-> -53] ->
         [s |-> 0, m |-> <<18642, 21473, 25413, 201>>, e |-> -53]
      [] x = [s |-> 0, m |-> <<4118, 32304, 14612, 232>>, e |-> -53] ->
         [s |-> 0, m |-> <<22871, 30408, 26117, 201>>, e |-> -53]
      [] x = [s |-> 0, m |-> <<4929, 32338, 14612, 232>>, e |-> -53] ->
         [s |-> 0, m |-> <<20788, 30429, 26117, 201>>, e |-> -53]
      [] x = [s |-> 0, m |-> <<3266, 29918, 11483, 236>>, e |-> -53] ->
         [s |-> 0, m |-> <<11850, 28906, 5768, 204>>, e |-> -53]
      [] x = [s |-> 0, m |-> <<27600, 22831, 15317, 238>>, e |-> -53] ->
         [s |-> 0, m |-> <<15116, 32701, 14617, 205>>, e |-> -53]
      [] x = [s |-> 0, m |-> <<7047, 23897, 11334, 239>>, e |-> -53] ->
         [s |-> 0, m |-> <<6193, 1872, 31752, 205>>, e |-> -53]
      [] x = [s |-> 0, m |-> <<8824, 1698, 11549, 245>>, e |-> -53] ->
         [s |-> 0, m |-> <<17008, 3022, 15697, 209>>, e |-> -53]
      [] x = [s |-> 0, m |-> <<12665, 5633, 12997, 245>>, e |-> -53] ->
         [s |-> 0, m |-> <<24211, 13214, 16529, 209>>, e |-> -53]
      [] x = [s |-> 0, m |-> <<10132, 8187, 23272, 245>>, e |-> -53] ->
         [s |-> 0, m |-> <<30314, 5099, 22429, 209>>, e |-> -53]
      [] x = [s |-> 0, m |-> <<15597, 30782, 23332, 245>>, e |-> -53] ->
         [s |-> 0, m |-> <<26096, 31843, 22463, 209>>, e |-> -53]
      [] x = [s |-> 0, m |-> <<280, 23436, 23340, 245>>, e |-> -53] ->
         [s |-> 0, m |-> <<8457, 14174, 22468, 209>>, e |-> -53]
      [] x = [s |-> 0, m |-> <<28845, 1486, 23352, 245>>, e |-> -53] ->
         [s |-> 0, m |-> <<22519, 30551, 22474, 209>>, e |-> -53]
      [] x = [s |-> 0, m |-> <<978, 15635, 28897, 247>>, e |-> -53] ->
         [s |-> 0, m |-> <<9703, 5391, 30237, 210>>, e |-> -53]
      [] x = [s |-> 0, m |-> <<10816, 28542, 11495, 254>>, e |-> -53] ->
         [s |-> 0, m |-> <<24227, 31456, 17073, 214>>, e |-> -53]
      [] x = [s |-> 0, m |-> <<190, 29562, 1428, 255>>, e |-> -53] ->
         [s |-> 0, m |-> <<30644, 14017, 29436, 214>>, e |-> -53]
      [] x = [s |-> 0, m |-> <<31517, 29563, 1428, 255>>, e |-> -53] ->
         [s |-> 0, m |-> <<32708, 14018, 29436, 214>>, e |-> -53]
      [] x = [s |-> 0, m |-> <<17266, 14494, 1455, 255>>, e |-> -53] ->
         [s |-> 0, m |-> <<11317, 27879, 29450, 214>>, e |-> -53]
      [] x = [s |-> 0, m |-> <<13772, 11158, 19144, 255>>, e |-> -53] ->
         [s |-> 0, m |-> <<3049, 1129, 6280, 215>>, e |-> -53]
      [] x = [s |-> 0, m |-> <<25133, 13058, 22163, 128>>, e |-> -52] ->
         [s |-> 0, m |-> <<13119, 14595, 4733, 216>>, e |-> -53]
      [] x = [s |-> 0, m |-> <<32205, 16754, 2818, 133>>, e |-> -52] ->
         [s |-> 0, m |-> <<3760, 7925, 24283, 220>>, e |-> -53]
      [] x = [s |-> 0, m |-> <<6514, 27404, 10354, 133>>, e |-> -52] ->
         [s |-> 0, m |-> <<31816, 3058, 31905, 220>>, e |-> -53]
      [] x = [s |-> 0, m |-> <<29541, 28762, 1352, 134>>, e |-> -52] ->
         [s |-> 0, m |-> <<19626, 20656, 23019, 221>>, e |-> -53]
      [] x = [s |-> 0, m |-> <<3581, 5536, 18339, 134>>, e |-> -52] ->
         [s |-> 0, m |-> <<8658, 9820, 7178, 222>>, e |-> -53]
      [] x = [s |-> 0, m |-> <<3157, 1053, 22683, 134>>, e |-> -52] ->
         [s |-> 0, m |-> <<28927, 24616, 11487, 222>>, e |-> -53]
      [] x = [s |-> 0, m |-> <<9345, 14710, 26292, 134>>, e |-> -52] ->
         [s |-> 0, m |-> <<476, 20651, 15062, 222>>, e |-> -53]
      [] x = [s |-> 0, m |-> <<13401, 1391, 834, 135>>, e |-> -52] ->
         [s |-> 0, m |-> <<1676, 24281, 22285, 222>>, e |-> -53]
      [] x = [s |-> 0, m |-> <<12772, 7423, 8123, 135>>, e |-> -52] ->
         [s |-> 0, m |-> <<27923, 20155, 29466, 222>>, e |-> -53]
      [] x = [s |-> 0, m |-> <<22180, 8255, 30062, 136>>, e |-> -52] ->
         [s |-> 0, m |-> <<12643, 6135, 17119, 224>>, e |-> -53]
      [] x = [s |-> 0, m |-> <<3873, 22004, 20146, 137>>, e |-> -52] ->
         [s |-> 0, m |-> <<16641, 6967, 6199, 225>>, e |-> -53]
      [] x = [s |-> 0, m |-> <<23211, 4772, 22399, 138>>, e |-> -52] ->
         [s |-> 0, m |-> <<17510, 7056, 6487, 226>>, e |-> -53]
      [] x = [s |-> 0, m |-> <<22972, 4713, 26654, 138>>, e |-> -52] ->
         [s |-> 0, m |-> <<23676, 12125, 10468, 226>>, e |-> -53]
      [] x = [s |-> 0, m |-> <<22973, 4713, 26654, 138>>, e |-> -52] ->
         [s |-> 0, m |-> <<23677, 12125, 10468, 226>>, e |-> -53]
      [] x = [s |-> 0, m |-> <<24047, 7820, 26654, 138>>, e |-> -52] ->
         [s |-> 0, m |-> <<215, 15030, 10468, 226>>, e |-> -53]
      [] x = [s |-> 0, m |-> <<24807, 23523, 7701, 139>>, e |-> -52] ->
         [s |-> 0, m |-> <<9812, 5169, 23342, 226>>, e |-> -53]
      [] x = [s |-> 0, m |-> <<9760, 21449, 11377, 139>>, e |-> -52] ->
         [s |-> 0, m |-> <<25735, 30844, 26753, 226>>, e |-> -53]
      [] x = [s |-> 0, m |-> <<23234, 31075, 16225, 139>>, e |-> -52] ->
         [s |-> 0, m |-> <<31875, 3464, 31245, 226>>, e |-> -53]
      [] x = [s |-> 0, m |-> <<4162, 14987, 16712, 139>>, e |-> -52] ->
         [s |-> 0, m |-> <<30053, 7523, 31695, 226>>, e |-> -53]
      [] x = [s |-> 0, m |-> <<30228, 15000, 16712, 139>>, e |-> -52] ->
         [s |-> 0, m |-> <<22264, 7536, 31695, 226>>, e |-> -53]
      [] x = [s |-> 0, m |-> <<17141, 23536, 17138, 139>>, e |-> -52] ->
         [s |-> 0, m |-> <<18540, 17333, 32089, 226>>, e |-> -53]
      [] x = [s |-> 0, m |-> <<16067, 26911, 25859, 139>>, e |-> -52] ->
         [s |-> 0, m |-> <<6241, 27655, 7371, 227>>, e |-> -53]
      [] x = [s |-> 0, m |-> <<32716, 15986, 28185, 139>>, e |-> -52] ->
         [s |-> 0, m |-> <<26341, 6404, 9513, 227>>, e |-> -53]
      [] x = [s |-> 0, m |-> <<2849, 29251, 31573, 139>>, e |-> -52] ->
         [s |-> 0, m |-> <<12797, 31513, 12628, 227>>, e |-> -53]
      [] x = [s |-> 0, m |-> <<17499, 22688, 30491, 140>>, e |-> -52] ->
         [s |-> 0, m |-> <<13477, 20601, 8761, 228>>, e |-> -53]
      [] x = [s |-> 0, m |-> <<27067, 16717, 1757, 141>>, e |-> -52] ->
         [s |-> 0, m |-> <<26362, 9274, 12410, 228>>, e |-> -53]
      [] x = [s |-> 0, m |-> <<17357, 4448, 29511, 141>>, e |-> -52] ->
         [s |-> 0, m |-> <<20176, 2342, 4558, 229>>, e |-> -53]
      [] x = [s |-> 0, m |-> <<26249, 26004, 14443, 142>>, e |-> -52] ->
         [s |-> 0, m |-> <<25539, 6229, 20277, 229>>, e |-> -53]
      [] x = [s |-> 0, m |-> <<17852, 32662, 1437, 143>>, e |-> -52] ->
         [s |-> 0, m |-> <<12197, 24063, 4900, 230>>, e |-> -53]
      [] x = [s |-> 0, m |-> <<24461, 106, 1438, 143>>, e |-> -52] ->
         [s |-> 0, m |-> <<7215, 24249, 4900, 230>>, e |-> -53]
      [] x = [s |-> 0, m |-> <<10851, 3902, 1903, 143>>, e |-> -52] ->
         [s |-> 0, m |-> <<3923, 1503, 5308, 230>>, e |-> -53]
      [] x = [s |-> 0, m |-> <<31007, 14577, 2717, 143>>, e |-> -52] ->
         [s |-> 0, m |-> <<406, 30621, 6020, 230>>, e |-> -53]
      [] x = [s |-> 0, m |-> <<20188, 12913, 11091, 143>>, e |-> -52] ->
         [s |-> 0, m |-> <<9702, 9052, 13335, 230>>, e |-> -53]
      [] x = [s |-> 0, m |-> <<13102, 17452, 12131, 143>>, e |-> -52] ->
         [s |-> 0, m |-> <<27853, 22905, 14241, 230>>, e |-> -53]
      [] x = [s |-> 0, m |-> <<1707, 22130, 19064, 143>>, e |-> -52] ->
         [s |-> 0, m |-> <<27221, 22298, 20271, 230>>, e |-> -53]
      [] x = [s |-> 0, m |-> <<10773, 22339, 19064, 143>>, e |-> -52] ->
         [s |-> 0, m |-> <<17496, 22480, 20271, 230>>, e |-> -53]
      [] x = [s |-> 0, m |-> <<23656, 11618, 19526, 143>>, e |-> -52] ->
         [s |-> 0, m |-> <<14924, 15891, 20672, 230>>, e |-> -53]
      [] x = [s |-> 0, m |-> <<16136, 24116, 21321, 143>>, e |-> -52] ->
         [s |-> 0, m |-> <<29415, 8707, 22230, 230>>, e |-> -53]
      [] x = [s |-> 0, m |-> <<12829, 24325, 21321, 143>>, e |-> -52] ->
         [s |-> 0, m |-> <<2310, 8889, 22230, 230>>, e |-> -53]
      [] x = [s |-> 0, m |-> <<24588, 31784, 21782, 143>>, e |-> -52] ->
         [s |-> 0, m |-> <<13236, 7749, 22630, 230>>, e |-> -53]
      [] x = [s |-> 0, m |-> <<16966, 31616, 24609, 143>>, e |-> -52] ->
         [s |-> 0, m |-> <<11001, 24224, 25079, 230>>, e |-> -53]
      [] x = [s |-> 0, m |-> <<28364, 31824, 24609, 143>>, e |-> -52] ->
         [s |-> 0, m |-> <<24119, 24404, 25079, 230>>, e |-> -53]
      [] x = [s |-> 0, m |-> <<12479, 17974, 25070, 143>>, e |-> -52] ->
         [s |-> 0, m |-> <<2072, 16228, 25478, 230>>, e |-> -53]
      [] x = [s |-> 0, m |-> <<4982, 17114, 20401, 144>>, e |-> -52] ->
         [s |-> 0, m |-> <<11152, 28404, 16864, 231>>, e |-> -53]
      [] x = [s |-> 0, m |-> <<2728, 4639, 5187, 146>>, e |-> -52] ->
         [s |-> 0, m |-> <<3766, 21077, 26502, 232>>, e |-> -53]
      [] x = [s |-> 0, m |-> <<2680, 25949, 16177, 146>>, e |-> -52] ->
         [s |-> 0, m |-> <<5861, 16801, 2850, 233>>, e |-> -53]
      [] x = [s |-> 0, m |-> <<21182, 5033, 30645, 148>>, e |-> -52] ->
         [s |-> 0, m |-> <<5849, 24230, 2086, 235>>, e |-> -53]
      [] x = [s |-> 0, m |-> <<20142, 11130, 1656, 149>>, e |-> -52] ->
         [s |-> 0, m |-> <<11272, 10029, 5077, 235>>, e |-> -53]
      [] x = [s |-> 0, m |-> <<20143, 11130, 1656, 149>>, e |-> -52] ->
         [s |-> 0, m |-> <<11273, 10029, 5077, 235>>, e |-> -53]
      [] x = [s |-> 0, m |-> <<15140, 13668, 1656, 149>>, e |-> -52] ->
         [s |-> 0, m |-> <<16623, 12035, 5077, 235>>, e |-> -53]
      [] x = [s |-> 0, m |-> <<28005, 26995, 6289, 150>>, e |-> -52] ->
         [s |-> 0, m |-> <<20828, 11664, 1568, 236>>, e |-> -53]
      [] x = [s |-> 0, m |-> <<15914, 3380, 8069, 150>>, e |-> -52] ->
         [s |-> 0, m |-> <<8077, 31872, 2944, 236>>, e |-> -53]
      [] x = [s |-> 0, m |-> <<27920, 13090, 11780, 150>>, e |-> -52] ->
         [s |-> 0, m |-> <<1997, 29408, 5811, 236>>, e |-> -53]
      [] x = [s |-> 0, m |-> <<28276, 15547, 11780, 150>>, e |-> -52] ->
         [s |-> 0, m |-> <<2037, 31304, 5811, 236>>, e |-> -53]
      [] x = [s |-> 0, m |-> <<28363, 1887, 5097, 152>>, e |-> -52] ->
         [s |-> 0, m |-> <<30621, 12796, 17695, 237>>, e |-> -53]
      [] x = [s |-> 0, m |-> <<18902, 25970, 8706, 152>>, e |-> -52] ->
         [s |-> 0, m |-> <<26504, 9946, 20384, 237>>, e |-> -53]
      [] x = [s |-> 0, m |-> <<20201, 28307, 8706, 152>>, e |-> -52] ->
         [s |-> 0, m |-> <<26765, 11685, 20384, 237>>, e |-> -53]
      [] x = [s |-> 0, m |-> <<8913, 19681, 27813, 152>>, e |-> -52] ->
         [s |-> 0, m |-> <<7927, 32007, 1752, 238>>, e |-> -53]
      [] x = [s |-> 0, m |-> <<23321, 7879, 31362, 152>>, e |-> -52] ->
         [s |-> 0, m |-> <<13521, 23450, 4360, 238>>, e |-> -53]
      [] x = [s |-> 0, m |-> <<17661, 30627, 4868, 153>>, e |-> -52] ->
         [s |-> 0, m |-> <<2792, 1322, 8958, 238>>, e |-> -53]
      [] x = [s |-> 0, m |-> <<13240, 29744, 16041, 154>>, e |-> -52] ->
         [s |-> 0, m |-> <<11807, 11931, 7894, 239>>, e |-> -53]
      [] x = [s |-> 0, m |-> <<21536, 7817, 22617, 154>>, e |-> -52] ->
         [s |-> 0, m |-> <<24199, 22183, 12564, 239>>, e |-> -53]
      [] x = [s |-> 0, m |-> <<8662, 23643, 27412, 154>>, e |-> -52] ->
         [s |-> 0, m |-> <<7191, 21199, 15958, 239>>, e |-> -53]
      [] x = [s |-> 0, m |-> <<26323, 9269, 27807, 154>>, e |-> -52] ->
         [s |-> 0, m |-> <<24397, 14363, 16237, 239>>, e |-> -53]
      [] x = [s |-> 0, m |-> <<11810, 9279, 27807, 154>>, e |-> -52] ->
         [s |-> 0, m |-> <<16273, 14370, 16237, 239>>, e |-> -53]
      [] x = [s |-> 0, m |-> <<5664, 7619, 28892, 154>>, e |-> -52] ->
         [s |-> 0, m |-> <<756, 22615, 17003, 239>>, e |-> -53]
      [] x = [s |-> 0, m |-> <<28031, 4455, 30983, 154>>, e |-> -52] ->
         [s |-> 0, m |-> <<1161, 30187, 18478, 239>>, e |-> -53]
      [] x = [s |-> 0, m |-> <<32481, 31371, 31376, 154>>, e |-> -52] ->
         [s |-> 0, m |-> <<20898, 18432, 18756, 239>>, e |-> -53]
      [] x = [s |-> 0, m |-> <<16892, 31381, 31376, 154>>, e |-> -52] ->
         [s |-> 0, m |-> <<11517, 18439, 18756, 239>>, e |-> -53]
      [] x = [s |-> 0, m |-> <<16009, 7137, 4528, 155>>, e |-> -52] ->
         [s |-> 0, m |-> <<26924, 8511, 22921, 239>>, e |-> -53]
      [] x = [s |-> 0, m |-> <<13425, 23859, 4920, 155>>, e |-> -52] ->
         [s |-> 0, m |-> <<3149, 28534, 23196, 239>>, e |-> -53]
      [] x = [s |-> 0, m |-> <<28698, 23868, 4920, 155>>, e |-> -52] ->
         [s |-> 0, m |-> <<24318, 28540, 23196, 239>>, e |-> -53]
      [] x = [s |-> 0, m |-> <<14755, 6403, 27106, 155>>, e |-> -52] ->
         [s |-> 0, m |-> <<26087, 1980, 5895, 240>>, e |-> -53]
      [] x = [s |-> 0, m |-> <<28610, 2366, 28877, 156>>, e |-> -52] ->
         [s |-> 0, m |-> <<14923, 26299, 29534, 240>>, e |-> -53]
      [] x = [s |-> 0, m |-> <<32329, 27941, 30663, 156>>, e |-> -52] ->
         [s |-> 0, m |-> <<26331, 6416, 30743, 240>>, e |-> -53]
      [] x = [s |-> 0, m |-> <<25094, 15649, 32112, 156>>, e |-> -52] ->
         [s |-> 0, m |-> <<4688, 27654, 31721, 240>>, e |-> -53]
      [] x = [s |-> 0, m |-> <<7428, 18591, 1154, 159>>, e |-> -52] ->
         [s |-> 0, m |-> <<1258, 6332, 10641, 242>>, e |-> -53]
      [] x = [s |-> 0, m |-> <<20484, 14736, 7513, 165>>, e |-> -52] ->
         [s |-> 0, m |-> <<2667, 21896, 1122, 246>>, e |-> -53]
      [] x = [s |-> 0, m |-> <<22521, 22099, 7661, 165>>, e |-> -52] ->
         [s |-> 0, m |-> <<28060, 18751, 1204, 246>>, e |-> -53]
      [] x = [s |-> 0, m |-> <<4393, 13004, 8713, 165>>, e |-> -52] ->
         [s |-> 0, m |-> <<15901, 14088, 1785, 246>>, e |-> -53]
      [] x = [s |-> 0, m |-> <<7759, 19950, 8719, 165>>, e |-> -52] ->
         [s |-> 0, m |-> <<13199, 28156, 1788, 246>>, e |-> -53]
      [] x = [s |-> 0, m |-> <<14923, 13262, 8720, 165>>, e |-> -52] ->
         [s |-> 0, m |-> <<30461, 9785, 1789, 246>>, e |-> -53]
      [] x = [s |-> 0, m |-> <<2751, 18496, 8721, 165>>, e |-> -52] ->
         [s |-> 0, m |-> <<20555, 30764, 1789, 246>>, e |-> -53]
      [] x = [s |-> 0, m |-> <<8415, 6893, 5723, 167>>, e |-> -52] ->
         [s |-> 0, m |-> <<27874, 5901, 2648, 247>>, e |-> -53]
      [] x = [s |-> 0, m |-> <<4911, 6011, 9796, 169>>, e |-> -52] ->
         [s |-> 0, m |-> <<13401, 21684, 5191, 248>>, e |-> -53]
      [] x = [s |-> 0, m |-> <<16076, 19767, 22284, 169>>, e |-> -52] ->
         [s |-> 0, m |-> <<27156, 5007, 11290, 248>>, e |-> -53]
      [] x = [s |-> 0, m |-> <<9291, 3294, 4847, 171>>, e |-> -52] ->
         [s |-> 0, m |-> <<10412, 22727, 1335, 249>>, e |-> -53]
      [] x = [s |-> 0, m |-> <<5111, 23311, 4852, 171>>, e |-> -52] ->
         [s |-> 0, m |-> <<26997, 9578, 1338, 249>>, e |-> -53]
      [] x = [s |-> 0, m |-> <<22310, 18418, 4856, 171>>, e |-> -52] ->
         [s |-> 0, m |-> <<3303, 2484, 1340, 249>>, e |-> -53]
      [] x = [s |-> 0, m |-> <<5842, 20200, 4886, 171>>, e |-> -52] ->
         [s |-> 0, m |-> <<1068, 32622, 1353, 249>>, e |-> -53]
      [] x = [s |-> 0, m |-> <<23695, 15103, 7372, 171>>, e |-> -52] ->
         [s |-> 0, m |-> <<19328, 28457, 2503, 249>>, e |-> -53]
      [] x = [s |-> 0, m |-> <<30361, 32366, 9974, 171>>, e |-> -52] ->
         [s |-> 0, m |-> <<25053, 21070, 3704, 249>>, e |-> -53]
      [] x = [s |-> 0, m |-> <<3334, 3878, 10692, 171>>, e |-> -52] ->
         [s |-> 0, m |-> <<3180, 31659, 4034, 249>>, e |-> -53]
      [] x = [s |-> 0, m |-> <<32635, 19403, 1517, 175>>, e |-> -52] ->
         [s |-> 0, m |-> <<4549, 22298, 23939, 250>>, e |-> -53]
      [] x = [s |-> 0, m |-> <<24245, 21786, 15110, 175>>, e |-> -52] ->
         [s |-> 0, m |-> <<20213, 2075, 29384, 250>>, e |-> -53]
      [] x = [s |-> 0, m |-> <<8603, 14122, 4554, 176>>, e |-> -52] ->
         [s |-> 0, m |-> <<30720, 19731, 5326, 251>>, e |-> -53]
      [] x = [s |-> 0, m |-> <<32288, 5445, 25575, 176>>, e |-> -52] ->
         [s |-> 0, m |-> <<27015, 16275, 13357, 251>>, e |-> -53]
      [] x = [s |-> 0, m |-> <<29945, 10150, 4585, 177>>, e |-> -52] ->
         [s |-> 0, m |-> <<18565, 28009, 17766, 251>>, e |-> -53]
      [] x = [s |-> 0, m |-> <<18929, 2360, 4808, 177>>, e |-> -52] ->
         [s |-> 0, m |-> <<13952, 20435, 17849, 251>>, e |-> -53]
      [] x = [s |-> 0, m |-> <<25177, 2363, 4808, 177>>, e |-> -52] ->
         [s |-> 0, m |-> <<20026, 20436, 17849, 251>>, e |-> -53]
      [] x = [s |-> 0, m |-> <<25103, 6885, 20945, 177>>, e |-> -52] ->
         [s |-> 0, m |-> <<3769, 20529, 23783, 251>>, e |-> -53]
      [] x = [s |-> 0, m |-> <<444, 7747, 21363, 177>>, e |-> -52] ->
         [s |-> 0, m |-> <<12350, 23674, 23935, 251>>, e |-> -53]
      [] x = [s |-> 0, m |-> <<23884, 29249, 28443, 177>>, e |-> -52] ->
         [s |-> 0, m |-> <<20292, 17086, 26499, 251>>, e |-> -53]
      [] x = [s |-> 0, m |-> <<3249, 25591, 18936, 178>>, e |-> -52] ->
         [s |-> 0, m |-> <<15879, 12649, 1988, 252>>, e |-> -53]
      [] x = [s |-> 0, m |-> <<1533, 11283, 4964, 180>>, e |-> -52] ->
         [s |-> 0, m |-> <<17599, 23542, 19385, 252>>, e |-> -53]
      [] x = [s |-> 0, m |-> <<15254, 16795, 18713, 180>>, e |-> -52] ->
         [s |-> 0, m |-> <<9947, 16031, 23813, 252>>, e |-> -53]
      [] x = [s |-> 0, m |-> <<10836, 2528, 6566, 183>>, e |-> -52] ->
         [s |-> 0, m |-> <<7227, 16418, 16763, 253>>, e |-> -53]
      [] x = [s |-> 0, m |-> <<16137, 1291, 1821, 186>>, e |-> -52] ->
         [s |-> 0, m |-> <<7953, 5708, 7953, 254>>, e |-> -53]
      [] x = [s |-> 0, m |-> <<17440, 27724, 25895, 187>>, e |-> -52] ->
         [s |-> 0, m |-> <<29409, 12417, 20485, 254>>, e |-> -53]
      [] x = [s |-> 0, m |-> <<32328, 24057, 30187, 187>>, e |-> -52] ->
         [s |-> 0, m |-> <<12524, 13885, 21369, 254>>, e |-> -53]
      [] x = [s |-> 0, m |-> <<3328, 23087, 5849, 188>>, e |-> -52] ->
         [s |-> 0, m |-> <<12376, 13006, 23080, 254>>, e |-> -53]
      [] x = [s |-> 0, m |-> <<19990, 7525, 5976, 188>>, e |-> -52] ->
         [s |-> 0, m |-> <<26544, 26871, 23105, 254>>, e |-> -53]
      [] x = [s |-> 0, m |-> <<21326, 7526, 5976, 188>>, e |-> -52] ->
         [s |-> 0, m |-> <<628, 26872, 23105, 254>>, e |-> -53]
      [] x = [s |-> 0, m |-> <<31507, 30568, 17940, 188>>, e |-> -52] ->
         [s |-> 0, m |-> <<15783, 19995, 25475, 254>>, e |-> -53]
      [] x = [s |-> 0, m |-> <<15607, 5705, 12755, 192>>, e |-> -52] ->
         [s |-> 0, m |-> <<14153, 8528, 13520, 255>>, e |-> -53]
      [] x = [s |-> 0, m |-> <<3265, 28599, 26937, 193>>, e |-> -52] ->
         [s |-> 0, m |-> <<9292, 7305, 19353, 255>>, e |-> -53]
      [] x = [s |-> 0, m |-> <<32689, 10577, 5471, 194>>, e |-> -52] ->
         [s |-> 0, m |-> <<18364, 19245, 20600, 255>>, e |-> -53]
      [] x = [s |-> 0, m |-> <<2832, 16287, 27652, 195>>, e |-> -52] ->
         [s |-> 0, m |-> <<15908, 19835, 25798, 255>>, e |-> -53]
      [] x = [s |-> 0, m |-> <<2257, 13166, 26305, 197>>, e |-> -52] ->
         [s |-> 0, m |-> <<27897, 29340, 30048, 255>>, e |-> -53]
      [] x = [s |-> 0, m |-> <<29319, 7501, 25383, 200>>, e |-> -52] ->
         [s |-> 0, m |-> <<3476, 28513, 32746, 255>>, e |-> -53]
      [] x = [s |-> 0, m |-> <<11544, 10376, 2029, 201>>, e |-> -52] ->
         [s |-> 0, m |-> <<0, 0, 0, 128>>, e |-> -52]
      [] x = [s |-> 0, m |-> <<5070, 24335, 3295, 203>>, e |-> -52] ->
         [s |-> 0, m |-> <<26401, 2106, 31704, 255>>, e |-> -53]
      [] x = [s |-> 0, m |-> <<12439, 11107, 17096, 203>>, e |-> -52] ->
         [s |-> 0, m |-> <<7748, 2575, 31219, 255>>, e |-> -53]
      [] x = [s |-> 0, m |-> <<27167, 6998, 23033, 203>>, e |-> -52] ->
         [s |-> 0, m |-> <<28582, 16709, 30982, 255>>, e |-> -53]
      [] x = [s |-> 0, m |-> <<14033, 24747, 31276, 203>>, e |-> -52] ->
         [s |-> 0, m |-> <<10192, 5322, 30626, 255>>, e |-> -53]
      [] x = [s |-> 0, m |-> <<14664, 24747, 31276, 203>>, e |-> -52] ->
         [s |-> 0, m |-> <<10164, 5322, 30626, 255>>, e |-> -53]
      [] x = [s |-> 0, m |-> <<1711, 21766, 31281, 203>>, e |-> -52] ->
         [s |-> 0, m |-> <<17449, 30820, 30625, 255>>, e |-> -53]
      [] x = [s |-> 0, m |-> <<20888, 25843, 27361, 204>>, e |-> -52] ->
         [s |-> 0, m |-> <<31409, 26309, 29123, 255>>, e |-> -53]
      [] x = [s |-> 0, m |-> <<5742, 7319, 9042, 210>>, e |-> -52] ->
         [s |-> 0, m |-> <<12554, 15327, 11043, 255>>, e |-> -53]
      [] x = [s |-> 0, m |-> <<20296, 26000, 28995, 210>>, e |-> -52] ->
         [s |-> 0, m |-> <<19941, 19133, 8078, 255>>, e |-> -53]
      [] x = [s |-> 0, m |-> <<5152, 30862, 386, 212>>, e |-> -52] ->
         [s |-> 0, m |-> <<26990, 11606, 2092, 255>>, e |-> -53]
      [] x = [s |-> 0, m |-> <<21906, 18605, 9771, 212>>, e |-> -52] ->
         [s |-> 0, m |-> <<28410, 24874, 467, 255>>, e |-> -53]
      [] x = [s |-> 0, m |-> <<16544, 25810, 13276, 212>>, e |-> -52] ->
         [s |-> 0, m |-> <<25482, 7568, 32618, 254>>, e |-> -53]
      [] x = [s |-> 0, m |-> <<2348, 25811, 13276, 212>>, e |-> -52] ->
         [s |-> 0, m |-> <<22195, 7568, 32618, 254>>, e |-> -53]
      [] x = [s |-> 0, m |-> <<32645, 8274, 13370, 212>>, e |-> -52] ->
         [s |-> 0, m |-> <<8196, 22447, 32601, 254>>, e |-> -53]
      [] x = [s |-> 0, m |-> <<18294, 22648, 28511, 212>>, e |-> -52] ->
         [s |-> 0, m |-> <<11374, 14498, 29866, 254>>, e |-> -53]
      [] x = [s |-> 0, m |-> <<19084, 16990, 32268, 219>>, e |-> -52] ->
         [s |-> 0, m |-> <<32565, 1289, 6804, 253>>, e |-> -53]
      [] x = [s |-> 0, m |-> <<20322, 19949, 32359, 219>>, e |-> -52] ->
         [s |-> 0, m |-> <<23592, 6645, 6777, 253>>, e |-> -53]
      [] x = [s |-> 0, m |-> <<29375, 30683, 237, 220>>, e |-> -52] ->
         [s |-> 0, m |-> <<13554, 22043, 6586, 253>>, e |-> -53]
      [] x = [s |-> 0, m |-> <<14357, 24704, 241, 220>>, e |-> -52] ->
         [s |-> 0, m |-> <<11845, 17916, 6585, 253>>, e |-> -53]
      [] x = [s |-> 0, m |-> <<27113, 7963, 242, 220>>, e |-> -52] ->
         [s |-> 0, m |-> <<6356, 13189, 6585, 253>>, e |-> -53]
      [] x = [s |-> 0, m |-> <<13877, 31317, 242, 220>>, e |-> -52] ->
         [s |-> 0, m |-> <<6746, 6301, 6585, 253>>, e |-> -53]
      [] x = [s |-> 0, m |-> <<13851, 312, 23338, 220>>, e |-> -52] ->
         [s |-> 0, m |-> <<28052, 23354, 32415, 252>>, e |-> -53]
      [] x = [s |-> 0, m |-> <<19209, 1487, 23338, 220>>, e |-> -52] ->
         [s |-> 0, m |-> <<14891, 22995, 32415, 252>>, e |-> -53]
      [] x = [s |-> 0, m |-> <<31590, 30470, 23963, 220>>, e |-> -52] ->
         [s |-> 0, m |-> <<8732, 6372, 32224, 252>>, e |-> -53]
      [] x = [s |-> 0, m |-> <<23496, 18801, 8436, 223>>, e |-> -52] ->
         [s |-> 0, m |-> <<15074, 13476, 5271, 252>>, e |-> -53]
      [] x = [s |-> 0, m |-> <<8316, 9977, 1509, 224>>, e |-> -52] ->
         [s |-> 0, m |-> <<21465, 26092, 28965, 251>>, e |-> -53]
      [] x = [s |-> 0, m |-> <<20718, 21574, 1845, 224>>, e |-> -52] ->
         [s |-> 0, m |-> <<15277, 20448, 28845, 251>>, e |-> -53]
      [] x = [s |-> 0, m |-> <<24677, 8000, 4232, 224>>, e |-> -52] ->
         [s |-> 0, m |-> <<24113, 13837, 27991, 251>>, e |-> -53]
      [] x = [s |-> 0, m |-> <<1889, 11157, 4246, 224>>, e |-> -52] ->
         [s |-> 0, m |-> <<12473, 12092, 27986, 251>>, e |-> -53]
      [] x = [s |-> 0, m |-> <<23495, 4802, 4248, 224>>, e |-> -52] ->
         [s |-> 0, m |-> <<21591, 23644, 27985, 251>>, e |-> -53]
      [] x = [s |-> 0, m |-> <<20807, 25500, 4250, 224>>, e |-> -52] ->
         [s |-> 0, m |-> <<837, 25499, 27984, 251>>, e |-> -53]
      [] x = [s |-> 0, m |-> <<20474, 19235, 11607, 226>>, e |-> -52] ->
         [s |-> 0, m |-> <<9205, 24789, 608, 251>>, e |-> -53]
      [] x = [s |-> 0, m |-> <<32419, 27061, 28675, 226>>, e |-> -52] ->
         [s |-> 0, m |-> <<23429, 7910, 26607, 250>>, e |-> -53]
      [] x = [s |-> 0, m |-> <<5855, 12306, 25516, 229>>, e |-> -52] ->
         [s |-> 0, m |-> <<1122, 29176, 19148, 249>>, e |-> -53]
      [] x = [s |-> 0, m |-> <<16523, 5886, 27022, 229>>, e |-> -52] ->
         [s |-> 0, m |-> <<11541, 11910, 18478, 249>>, e |-> -53]
      [] x = [s |-> 0, m |-> <<917, 29880, 30785, 229>>, e |-> -52] ->
         [s |-> 0, m |-> <<19735, 25661, 16797, 249>>, e |-> -53]
      [] x = [s |-> 0, m |-> <<18699, 24543, 31620, 229>>, e |-> -52] ->
         [s |-> 0, m |-> <<16215, 3925, 16424, 249>>, e |-> -53]
      [] x = [s |-> 0, m |-> <<29303, 6079, 4331, 230>>, e |-> -52] ->
         [s |-> 0, m |-> <<28431, 32754, 13963, 249>>, e |-> -53]
      [] x = [s |-> 0, m |-> <<2448, 20971, 4764, 230>>, e |-> -52] ->
         [s |-> 0, m |-> <<15719, 24881, 13768, 249>>, e |-> -53]
      [] x = [s |-> 0, m |-> <<9220, 9910, 4776, 230>>, e |-> -52] ->
         [s |-> 0, m |-> <<10883, 16548, 13763, 249>>, e |-> -53]
      [] x = [s |-> 0, m |-> <<29534, 9495, 4811, 230>>, e |-> -52] ->
         [s |-> 0, m |-> <<15269, 24304, 13747, 249>>, e |-> -53]
      [] x = [s |-> 0, m |-> <<31446, 25313, 4815, 230>>, e |-> -52] ->
         [s |-> 0, m |-> <<28065, 23658, 13745, 249>>, e |-> -53]
      [] x = [s |-> 0, m |-> <<5817, 26358, 4815, 230>>, e |-> -52] ->
         [s |-> 0, m |-> <<12482, 23188, 13745, 249>>, e |-> -53]
      [] x = [s |-> 0, m |-> <<18363, 28204, 4815, 230>>, e |-> -52] ->
         [s |-> 0, m |-> <<15973, 22356, 13745, 249>>, e |-> -53]
      [] x = [s |-> 0, m |-> <<8623, 9972, 4822, 230>>, e |-> -52] ->
         [s |-> 0, m |-> <<23770, 25528, 13742, 249>>, e |-> -53]
      [] x = [s |-> 0, m |-> <<15966, 17822, 4825, 230>>, e |-> -52] ->
         [s |-> 0, m |-> <<7043, 10468, 13741, 249>>, e |-> -53]
      [] x = [s |-> 0, m |-> <<25565, 21985, 4832, 230>>, e |-> -52] ->
         [s |-> 0, m |-> <<30459, 3548, 13738, 249>>, e |-> -53]
      [] x = [s |-> 0, m |-> <<11393, 29800, 27099, 232>>, e |-> -52] ->
         [s |-> 0, m |-> <<7067, 17721, 5157, 248>>, e |-> -53]
      [] x = [s |-> 0, m |-> <<18137, 4010, 27146, 232>>, e |-> -52] ->
         [s |-> 0, m |-> <<30636, 27464, 5134, 248>>, e |-> -53]
      [] x = [s |-> 0, m |-> <<26619, 931, 27238, 232>>, e |-> -52] ->
         [s |-> 0, m |-> <<31274, 22456, 5089, 248>>, e |-> -53]
      [] x = [s |-> 0, m |-> <<31468, 6979, 20083, 234>>, e |-> -52] ->
         [s |-> 0, m |-> <<17813, 12410, 8387, 247>>, e |-> -53]
      [] x = [s |-> 0, m |-> <<31642, 19052, 10062, 239>>, e |-> -52] ->
         [s |-> 0, m |-> <<6902, 11518, 21544, 244>>, e |-> -53]
      [] x = [s |-> 0, m |-> <<5415, 3549, 10068, 240>>, e |-> -52] ->
         [s |-> 0, m |-> <<12005, 3160, 2005, 244>>, e |-> -53]
      [] x = [s |-> 0, m |-> <<13710, 6482, 8540, 245>>, e |-> -52] ->
         [s |-> 0, m |-> <<19853, 1377, 29135, 240>>, e |-> -53]
      [] x = [s |-> 0, m |-> <<18828, 24922, 26646, 245>>, e |-> -52] ->
         [s |-> 0, m |-> <<22858, 2236, 16804, 240>>, e |-> -53]
      [] x = [s |-> 0, m |-> <<23186, 11013, 13492, 246>>, e |-> -52] ->
         [s |-> 0, m |-> <<30066, 2460, 3281, 240>>, e |-> -53]
      [] x = [s |-> 0, m |-> <<15144, 16376, 13492, 246>>, e |-> -52] ->
         [s |-> 0, m |-> <<30135, 31507, 3280, 240>>, e |-> -53]
      [] x = [s |-> 0, m |-> <<28784, 20056, 13492, 246>>, e |-> -52] ->
         [s |-> 0, m |-> <<7466, 28954, 3280, 240>>, e |-> -53]
      [] x = [s |-> 0, m |-> <<8016, 16014, 13493, 246>>, e |-> -52] ->
         [s |-> 0, m |-> <<27953, 9022, 3280, 240>>, e |-> -53]
      [] x = [s |-> 0, m |-> <<10759, 29714, 13641, 246>>, e |-> -52] ->
         [s |-> 0, m |-> <<567, 9472, 3177, 240>>, e |-> -53]
      [] x = [s |-> 0, m |-> <<15828, 27005, 13662, 246>>, e |-> -52] ->
         [s |-> 0, m |-> <<14226, 25358, 3162, 240>>, e |-> -53]
      [] x = [s |-> 0, m |-> <<20661, 15407, 24025, 253>>, e |-> -52] ->
         [s |-> 0, m |-> <<5611, 29658, 20649, 234>>, e |-> -53]
      [] x = [s |-> 0, m |-> <<31309, 17187, 24030, 253>>, e |-> -52] ->
         [s |-> 0, m |-> <<18861, 28240, 20645, 234>>, e |-> -53]
      [] x = [s |-> 0, m |-> <<28877, 32547, 24033, 253>>, e |-> -52] ->
         [s |-> 0, m |-> <<26115, 2849, 20643, 234>>, e |-> -53]
      [] x = [s |-> 0, m |-> <<2932, 2182, 24061, 253>>, e |-> -52] ->
         [s |-> 0, m |-> <<11623, 14063, 20621, 234>>, e |-> -53]
      [] x = [s |-> 0, m |-> <<9483, 23865, 28644, 253>>, e |-> -52] ->
         [s |-> 0, m |-> <<19635, 908, 16950, 234>>, e |-> -53]
      [] x = [s |-> 0, m |-> <<21202, 23840, 29290, 253>>, e |-> -52] ->
         [s |-> 0, m |-> <<8482, 28183, 16431, 234>>, e |-> -53]
      [] x = [s |-> 0, m |-> <<32441, 12053, 7220, 254>>, e |-> -52] ->
         [s |-> 0, m |-> <<25203, 19554, 7824, 234>>, e |-> -53]
      [] x = [s |-> 0, m |-> <<22411, 13105, 7220, 254>>, e |-> -52] ->
         [s |-> 0, m |-> <<4150, 18706, 7824, 234>>, e |-> -53]
      [] x = [s |-> 0, m |-> <<14851, 13827, 7220, 254>>, e |-> -52] ->
         [s |-> 0, m |-> <<23264, 18123, 7824, 234>>, e |-> -53]
      [] x = [s |-> 0, m |-> <<26442, 19460, 7220, 254>>, e |-> -52] ->
         [s |-> 0, m |-> <<32514, 13577, 7824, 234>>, e |-> -53]
      [] x = [s |-> 0, m |-> <<29382, 22946, 7249, 254>>, e |-> -52] ->
         [s |-> 0, m |-> <<20702, 30388, 7800, 234>>, e |-> -53]
      [] x = [s |-> 0, m |-> <<32011, 26292, 7253, 254>>, e |-> -52] ->
         [s |-> 0, m |-> <<30252, 20224, 7797, 234>>, e |-> -53]
      [] x = [s |-> 0, m |-> <<1572, 31768, 22558, 128>>, e |-> -51] ->
         [s |-> 0, m |-> <<23594, 23315, 20339, 231>>, e |-> -53]
      [] x = [s |-> 0, m |-> <<15817, 3903, 11230, 129>>, e |-> -51] ->
         [s |-> 0, m |-> <<14819, 22490, 16187, 230>>, e |-> -53]
      [] x = [s |-> 0, m |-> <<27022, 6396, 11230, 129>>, e |-> -51] ->
         [s |-> 0, m |-> <<23985, 18150, 16187, 230>>, e |-> -53]
      [] x = [s |-> 0, m |-> <<23539, 10779, 12159, 129>>, e |-> -51] ->
         [s |-> 0, m |-> <<19233, 20758, 14569, 230>>, e |-> -53]
      [] x = [s |-> 0, m |-> <<6142, 16227, 12547, 132>>, e |-> -51] ->
         [s |-> 0, m |-> <<30141, 15758, 30947, 224>>, e |-> -53]
      [] x = [s |-> 0, m |-> <<5772, 21572, 17398, 132>>, e |-> -51] ->
         [s |-> 0, m |-> <<32080, 3254, 21664, 224>>, e |-> -53]
      [] x = [s |-> 0, m |-> <<13882, 24601, 29853, 132>>, e |-> -51] ->
         [s |-> 0, m |-> <<17487, 8206, 30417, 223>>, e |-> -53]
      [] x = [s |-> 0, m |-> <<28678, 46, 20882, 133>>, e |-> -51] ->
         [s |-> 0, m |-> <<17065, 14840, 16584, 222>>, e |-> -53]
      [] x = [s |-> 0, m |-> <<13401, 1391, 834, 135>>, e |-> -51] ->
         [s |-> 0, m |-> <<8835, 29830, 23200, 219>>, e |-> -53]
      [] x = [s |-> 0, m |-> <<12413, 15840, 5085, 135>>, e |-> -51] ->
         [s |-> 0, m |-> <<744, 25641, 14457, 219>>, e |-> -53]
      [] x = [s |-> 0, m |-> <<8140, 16478, 22847, 135>>, e |-> -51] ->
         [s |-> 0, m |-> <<10564, 26208, 10378, 218>>, e |-> -53]
      [] x = [s |-> 0, m |-> <<22247, 19518, 12562, 140>>, e |-> -51] ->
         [s |-> 0, m |-> <<507, 28918, 31175, 207>>, e |-> -53]
      [] x = [s |-> 0, m |-> <<3955, 20937, 24674, 142>>, e |-> -51] ->
         [s |-> 0, m |-> <<9664, 25409, 9241, 202>>, e |-> -53]
      [] x = [s |-> 0, m |-> <<2303, 22268, 24674, 142>>, e |-> -51] ->
         [s |-> 0, m |-> <<11942, 22146, 9241, 202>>, e |-> -53]
      [] x = [s |-> 0, m |-> <<27988, 29095, 26850, 142>>, e |-> -51] ->
         [s |-> 0, m |-> <<31306, 31366, 3902, 202>>, e |-> -53]
      [] x = [s |-> 0, m |-> <<31176, 16020, 16077, 145>>, e |-> -51] ->
         [s |-> 0, m |-> <<25115, 1232, 12698, 195>>, e |-> -53]
      [] x = [s |-> 0, m |-> <<4132, 20828, 17765, 145>>, e |-> -51] ->
         [s |-> 0, m |-> <<31023, 31310, 8332, 195>>, e |-> -53]
      [] x = [s |-> 0, m |-> <<7935, 176, 26793, 145>>, e |-> -51] ->
         [s |-> 0, m |-> <<16001, 12244, 17688, 194>>, e |-> -53]
      [] x = [s |-> 0, m |-> <<16284, 20855, 6719, 147>>, e |-> -51] ->
         [s |-> 0, m |-> <<8993, 6044, 29066, 190>>, e |-> -53]
      [] x = [s |-> 0, m |-> <<20028, 22862, 6719, 147>>, e |-> -51] ->
         [s |-> 0, m |-> <<20708, 694, 29066, 190>>, e |-> -53]
      [] x = [s |-> 0, m |-> <<2554, 24240, 6719, 147>>, e |-> -51] ->
         [s |-> 0, m |-> <<7022, 29791, 29065, 190>>, e |-> -53]
      [] x = [s |-> 0, m |-> <<3272, 2223, 6720, 147>>, e |-> -51] ->
         [s |-> 0, m |-> <<2587, 1136, 29065, 190>>, e |-> -53]
      [] x = [s |-> 0, m |-> <<27516, 20190, 6775, 147>>, e |-> -51] ->
         [s |-> 0, m |-> <<4590, 32022, 28916, 190>>, e |-> -53]
      [] x = [s |-> 0, m |-> <<5520, 14578, 6783, 147>>, e |-> -51] ->
         [s |-> 0, m |-> <<546, 3617, 28896, 190>>, e |-> -53]
      [] x = [s |-> 0, m |-> <<16618, 20643, 448, 148>>, e |-> -51] ->
         [s |-> 0, m |-> <<21496, 9953, 23481, 188>>, e |-> -53]
      [] x = [s |-> 0, m |-> <<17765, 31237, 25702, 149>>, e |-> -51] ->
         [s |-> 0, m |-> <<8325, 9582, 28151, 183>>, e |-> -53]
      [] x = [s |-> 0, m |-> <<17788, 31237, 25702, 149>>, e |-> -51] ->
         [s |-> 0, m |-> <<8261, 9582, 28151, 183>>, e |-> -53]
      [] x = [s |-> 0, m |-> <<19225, 3890, 25704, 149>>, e |-> -51] ->
         [s |-> 0, m |-> <<26463, 1592, 28148, 183>>, e |-> -53]
      [] x = [s |-> 0, m |-> <<22105, 678, 1757, 150>>, e |-> -51] ->
         [s |-> 0, m |-> <<25055, 5586, 3543, 183>>, e |-> -53]
      [] x = [s |-> 0, m |-> <<5726, 25293, 9624, 150>>, e |-> -51] ->
         [s |-> 0, m |-> <<11336, 13666, 14275, 182>>, e |-> -53]
      [] x = [s |-> 0, m |-> <<23969, 25302, 9624, 150>>, e |-> -51] ->
         [s |-> 0, m |-> <<17321, 13639, 14275, 182>>, e |-> -53]
      [] x = [s |-> 0, m |-> <<10056, 11160, 9679, 150>>, e |-> -51] ->
         [s |-> 0, m |-> <<1645, 9456, 14122, 182>>, e |-> -53]
      [] x = [s |-> 0, m |-> <<26632, 24041, 603, 151>>, e |-> -51] ->
         [s |-> 0, m |-> <<30020, 23057, 12792, 180>>, e |-> -53]
      [] x = [s |-> 0, m |-> <<27294, 9245, 24328, 152>>, e |-> -51] ->
         [s |-> 0, m |-> <<20379, 9345, 14169, 175>>, e |-> -53]
      [] x = [s |-> 0, m |-> <<12802, 8489, 3287, 153>>, e |-> -51] ->
         [s |-> 0, m |-> <<30171, 20877, 12685, 174>>, e |-> -53]
      [] x = [s |-> 0, m |-> <<32659, 25925, 11400, 154>>, e |-> -51] ->
         [s |-> 0, m |-> <<14399, 13718, 22962, 170>>, e |-> -53]
      [] x = [s |-> 0, m |-> <<6566, 30527, 17255, 155>>, e |-> -51] ->
         [s |-> 0, m |-> <<13559, 25732, 5190, 167>>, e |-> -53]
      [] x = [s |-> 0, m |-> <<27943, 23051, 1004, 156>>, e |-> -51] ->
         [s |-> 0, m |-> <<21824, 28179, 20518, 165>>, e |-> -53]
      [] x = [s |-> 0, m |-> <<27568, 6778, 1020, 156>>, e |-> -51] ->
         [s |-> 0, m |-> <<8285, 18806, 20471, 165>>, e |-> -53]
      [] x = [s |-> 0, m |-> <<9083, 307, 1028, 156>>, e |-> -51] ->
         [s |-> 0, m |-> <<23599, 25421, 20447, 165>>, e |-> -53]
      [] x = [s |-> 0, m |-> <<115, 18597, 17842, 156>>, e |-> -51] ->
         [s |-> 0, m |-> <<29657, 12235, 1756, 164>>, e |-> -53]
      [] x = [s |-> 0, m |-> <<11791, 4388, 8700, 157>>, e |-> -51] ->
         [s |-> 0, m |-> <<29066, 12078, 27173, 161>>, e |-> -53]
      [] x = [s |-> 0, m |-> <<22881, 1818, 13027, 157>>, e |-> -51] ->
         [s |-> 0, m |-> <<16000, 7750, 13751, 161>>, e |-> -53]
      [] x = [s |-> 0, m |-> <<22123, 22706, 3082, 159>>, e |-> -51] ->
         [s |-> 0, m |-> <<2668, 28563, 3162, 156>>, e |-> -53]
      [] x = [s |-> 0, m |-> <<28990, 23747, 3082, 159>>, e |-> -51] ->
         [s |-> 0, m |-> <<2063, 25262, 3162, 156>>, e |-> -53]
      [] x = [s |-> 0, m |-> <<21794, 7862, 5283, 159>>, e |-> -51] ->
         [s |-> 0, m |-> <<27127, 16752, 28951, 155>>, e |-> -53]
      [] x = [s |-> 0, m |-> <<19454, 12330, 3398, 160>>, e |-> -51] ->
         [s |-> 0, m |-> <<18284, 9146, 28715, 152>>, e |-> -53]
      [] x = [s |-> 0, m |-> <<25495, 7950, 17711, 160>>, e |-> -51] ->
         [s |-> 0, m |-> <<20963, 28147, 15444, 151>>, e |-> -53]
      [] x = [s |-> 0, m |-> <<9287, 8667, 5852, 164>>, e |-> -51] ->
         [s |-> 0, m |-> <<23665, 5736, 16427, 139>>, e |-> -53]
      [] x = [s |-> 0, m |-> <<15843, 22934, 25621, 164>>, e |-> -51] ->
         [s |-> 0, m |-> <<23821, 21984, 15455, 137>>, e |-> -53]
      [] x = [s |-> 0, m |-> <<32545, 24303, 12765, 166>>, e |-> -51] ->
         [s |-> 0, m |-> <<4112, 7912, 133, 132>>, e |-> -53]
      [] x = [s |-> 0, m |-> <<15278, 6007, 28044, 167>>, e |-> -51] ->
         [s |-> 0, m |-> <<9636, 20544, 29141, 253>>, e |-> -54]
      [] x = [s |-> 0, m |-> <<620, 6102, 14195, 168>>, e |-> -51] ->
         [s |-> 0, m |-> <<14430, 30426, 28443, 249>>, e |-> -54]
      [] x = [s |-> 0, m |-> <<20015, 16277, 25894, 171>>, e |-> -51] ->
         [s |-> 0, m |-> <<21934, 648, 3085, 226>>, e |-> -54]
      [] x = [s |-> 0, m |-> <<19726, 19842, 26564, 171>>, e |-> -51] ->
         [s |-> 0, m |-> <<8442, 25500, 31042, 225>>, e |-> -54]
      [] x = [s |-> 0, m |-> <<32537, 3342, 4497, 172>>, e |-> -51] ->
         [s |-> 0, m |-> <<9502, 10800, 19665, 223>>, e |-> -54]
      [] x = [s |-> 0, m |-> <<7874, 3343, 4497, 172>>, e |-> -51] ->
         [s |-> 0, m |-> <<16708, 10798, 19665, 223>>, e |-> -54]
      [] x = [s |-> 0, m |-> <<17776, 17736, 4517, 172>>, e |-> -51] ->
         [s |-> 0, m |-> <<14703, 7613, 19518, 223>>, e |-> -54]
      [] x = [s |-> 0, m |-> <<19588, 30526, 5764, 173>>, e |-> -51] ->
         [s |-> 0, m |-> <<1642, 21287, 3138, 216>>, e |-> -54]
      [] x = [s |-> 0, m |-> <<31349, 3138, 20822, 174>>, e |-> -51] ->
         [s |-> 0, m |-> <<25112, 26730, 14921, 205>>, e |-> -54]
      [] x = [s |-> 0, m |-> <<14456, 23768, 3589, 175>>, e |-> -51] ->
         [s |-> 0, m |-> <<16334, 18865, 31970, 201>>, e |-> -54]
      [] x = [s |-> 0, m |-> <<12435, 19020, 3238, 177>>, e |-> -51] ->
         [s |-> 0, m |-> <<25818, 15755, 8414, 187>>, e |-> -54]
      [] x = [s |-> 0, m |-> <<25758, 2407, 21287, 178>>, e |-> -51] ->
         [s |-> 0, m |-> <<16422, 11058, 21499, 175>>, e |-> -54]
      [] x = [s |-> 0, m |-> <<25896, 2407, 21287, 178>>, e |-> -51] ->
         [s |-> 0, m |-> <<15385, 11058, 21499, 175>>, e |-> -54]
      [] x = [s |-> 0, m |-> <<1598, 27387, 21288, 178>>, e |-> -51] ->
         [s |-> 0, m |-> <<8666, 3103, 21486, 175>>, e |-> -54]
      [] x = [s |-> 0, m |-> <<12525, 15180, 27826, 178>>, e |-> -51] ->
         [s |-> 0, m |-> <<17015, 15983, 5099, 174>>, e |-> -54]
      [] x = [s |-> 0, m |-> <<6999, 24160, 3588, 179>>, e |-> -51] ->
         [s |-> 0, m |-> <<23972, 13353, 6415, 172>>, e |-> -54]
      [] x = [s |-> 0, m |-> <<7000, 24160, 3588, 179>>, e |-> -51] ->
         [s |-> 0, m |-> <<23964, 13353, 6415, 172>>, e |-> -54]
      [] x = [s |-> 0, m |-> <<300, 31613, 3588, 179>>, e |-> -51] ->
         [s |-> 0, m |-> <<16365, 22740, 6413, 172>>, e |-> -54]
      [] x = [s |-> 0, m |-> <<5969, 14202, 9351, 179>>, e |-> -51] ->
         [s |-> 0, m |-> <<3450, 3543, 28514, 170>>, e |-> -54]
      [] x = [s |-> 0, m |-> <<23943, 19781, 10952, 179>>, e |-> -51] ->
         [s |-> 0, m |-> <<19781, 16260, 16437, 170>>, e |-> -54]
      [] x = [s |-> 0, m |-> <<6493, 23973, 4080, 181>>, e |-> -51] ->
         [s |-> 0, m |-> <<31047, 13596, 30535, 156>>, e |-> -54]
      [] x = [s |-> 0, m |-> <<12516, 20581, 4869, 181>>, e |-> -51] ->
         [s |-> 0, m |-> <<9534, 21208, 24527, 156>>, e |-> -54]
      [] x = [s |-> 0, m |-> <<26291, 28365, 27160, 182>>, e |-> -51] ->
         [s |-> 0, m |-> <<3754, 27704, 29465, 143>>, e |-> -54]
      [] x = [s |-> 0, m |-> <<6728, 123, 27161, 182>>, e |-> -51] ->
         [s |-> 0, m |-> <<5334, 25728, 29464, 143>>, e |-> -54]
      [] x = [s |-> 0, m |-> <<28148, 10179, 32077, 182>>, e |-> -51] ->
         [s |-> 0, m |-> <<10370, 23962, 24474, 142>>, e |-> -54]
      [] x = [s |-> 0, m |-> <<28374, 5179, 304, 186>>, e |-> -51] ->
         [s |-> 0, m |-> <<23449, 23950, 20578, 238>>, e |-> -55]
      [] x = [s |-> 0, m |-> <<9458, 7654, 3956, 186>>, e |-> -51] ->
         [s |-> 0, m |-> <<28986, 15069, 29278, 236>>, e |-> -55]
      [] x = [s |-> 0, m |-> <<11483, 11552, 3956, 186>>, e |-> -51] ->
         [s |-> 0, m |-> <<26237, 19928, 29276, 236>>, e |-> -55]
      [] x = [s |-> 0, m |-> <<7688, 9855, 6039, 186>>, e |-> -51] ->
         [s |-> 0, m |-> <<4315, 22632, 29617, 235>>, e |-> -55]
      [] x = [s |-> 0, m |-> <<4079, 31494, 1623, 187>>, e |-> -51] ->
         [s |-> 0, m |-> <<32140, 7449, 13468, 222>>, e |-> -55]
      [] x = [s |-> 0, m |-> <<3855, 20444, 7843, 188>>, e |-> -51] ->
         [s |-> 0, m |-> <<23380, 1118, 25925, 203>>, e |-> -55]
      [] x = [s |-> 0, m |-> <<2535, 22123, 7843, 188>>, e |-> -51] ->
         [s |-> 0, m |-> <<23580, 7560, 25924, 203>>, e |-> -55]
      [] x = [s |-> 0, m |-> <<2560, 26924, 11405, 188>>, e |-> -51] ->
         [s |-> 0, m |-> <<20760, 12036, 2828, 202>>, e |-> -55]
      [] x = [s |-> 0, m |-> <<14544, 7979, 29223, 189>>, e |-> -51] ->
         [s |-> 0, m |-> <<29575, 31766, 26729, 177>>, e |-> -55]
      [] x = [s |-> 0, m |-> <<21531, 6165, 29529, 189>>, e |-> -51] ->
         [s |-> 0, m |-> <<31025, 5271, 21909, 177>>, e |-> -55]
      [] x = [s |-> 0, m |-> <<9372, 13132, 2438, 190>>, e |-> -51] ->
         [s |-> 0, m |-> <<8408, 7527, 30734, 174>>, e |-> -55]
      [] x = [s |-> 0, m |-> <<29185, 13925, 2438, 190>>, e |-> -51] ->
         [s |-> 0, m |-> <<8150, 27784, 30733, 174>>, e |-> -55]
      [] x = [s |-> 0, m |-> <<6912, 27817, 5288, 190>>, e |-> -51] ->
         [s |-> 0, m |-> <<24138, 7922, 18560, 173>>, e |-> -55]
      [] x = [s |-> 0, m |-> <<19352, 30610, 9532, 191>>, e |-> -51] ->
         [s |-> 0, m |-> <<12355, 7004, 23904, 155>>, e |-> -55]
      [] x = [s |-> 0, m |-> <<24519, 11998, 28959, 192>>, e |-> -51] ->
         [s |-> 0, m |-> <<21619, 31076, 16211, 130>>, e |-> -55]
      [] x = [s |-> 0, m |-> <<17161, 21456, 872, 193>>, e |-> -51] ->
         [s |-> 0, m |-> <<19157, 13810, 7447, 128>>, e |-> -55]
      [] x = [s |-> 0, m |-> <<7478, 10666, 753, 194>>, e |-> -51] ->
         [s |-> 0, m |-> <<26901, 14865, 25960, 224>>, e |-> -56]
      [] x = [s |-> 0, m |-> <<19288, 4122, 4177, 195>>, e |-> -51] ->
         [s |-> 0, m |-> <<1315, 22548, 20660, 189>>, e |-> -56]
      [] x = [s |-> 0, m |-> <<30140, 4126, 4177, 195>>, e |-> -51] ->
         [s |-> 0, m |-> <<1241, 22410, 20660, 189>>, e |-> -56]
      [] x = [s |-> 0, m |-> <<13033, 2177, 4290, 195>>, e |-> -51] ->
         [s |-> 0, m |-> <<3841, 3432, 17062, 189>>, e |-> -56]
      [] x = [s |-> 0, m |-> <<23743, 10432, 8032, 195>>, e |-> -51] ->
         [s |-> 0, m |-> <<14507, 2361, 28886, 185>>, e |-> -56]
      [] x = [s |-> 0, m |-> <<13139, 25654, 7748, 196>>, e |-> -51] ->
         [s |-> 0, m |-> <<7907, 12440, 8792, 154>>, e |-> -56]
      [] x = [s |-> 0, m |-> <<13140, 25654, 7748, 196>>, e |-> -51] ->
         [s |-> 0, m |-> <<7875, 12440, 8792, 154>>, e |-> -56]
      [] x = [s |-> 0, m |-> <<20020, 29979, 7748, 196>>, e |-> -51] ->
         [s |-> 0, m |-> <<24365, 5498, 8788, 154>>, e |-> -56]
      [] x = [s |-> 0, m |-> <<26210, 20143, 14405, 196>>, e |-> -51] ->
         [s |-> 0, m |-> <<13275, 27873, 25729, 147>>, e |-> -56]
      [] x = [s |-> 0, m |-> <<16991, 11959, 14970, 196>>, e |-> -51] ->
         [s |-> 0, m |-> <<12016, 25597, 7704, 147>>, e |-> -56]
      [] x = [s |-> 0, m |-> <<16160, 17699, 15353, 196>>, e |-> -51] ->
         [s |-> 0, m |-> <<12552, 26976, 28242, 146>>, e |-> -56]
      [] x = [s |-> 0, m |-> <<22407, 9244, 18176, 197>>, e |-> -51] ->
         [s |-> 0, m |-> <<31731, 11943, 11489, 224>>, e |-> -57]
      [] x = [s |-> 0, m |-> <<11959, 28094, 20190, 198>>, e |-> -51] ->
         [s |-> 0, m |-> <<809, 2511, 16061, 156>>, e |-> -57]
      [] x = [s |-> 0, m |-> <<14374, 31198, 4739, 199>>, e |-> -51] ->
         [s |-> 0, m |-> <<3936, 29115, 12283, 245>>, e |-> -58]
      [] x = [s |-> 0, m |-> <<27646, 13264, 22755, 199>>, e |-> -51] ->
         [s |-> 0, m |-> <<27615, 9508, 832, 175>>, e |-> -58]
      [] x = [s |-> 0, m |-> <<23995, 8602, 2029, 201>>, e |-> -51] ->
         [s |-> 0, m |-> <<17606, 21609, 23019, 221>>, e |-> -78]
      [] x = [s |-> 0, m |-> <<11544, 10376, 2029, 201>>, e |-> -51] ->
         [s |-> 0, m |-> <<23559, 26152, 6296, 141>>, e |-> -105]
      [] x = [s |-> 0, m |-> <<21681, 13272, 2029, 201>>, e |-> -51] ->
         [s |-> 1, m |-> <<7579, 17867, 633, 181>>, e |-> -77]
      [] x = [s |-> 0, m |-> <<17190, 13614, 2029, 201>>, e |-> -51] ->
         [s |-> 1, m |-> <<7578, 28107, 12640, 202>>, e |-> -77]
      [] x = [s |-> 0, m |-> <<6557, 1138, 10243, 206>>, e |-> -51] ->
         [s |-> 1, m |-> <<16514, 23528, 27288, 167>>, e |-> -56]
      [] x = [s |-> 0, m |-> <<8969, 30091, 9941, 209>>, e |-> -51] ->
         [s |-> 1, m |-> <<29645, 20550, 16365, 131>>, e |-> -55]
      [] x = [s |-> 0, m |-> <<30761, 26874, 5575, 216>>, e |-> -51] ->
         [s |-> 1, m |-> <<15337, 32168, 16146, 239>>, e |-> -55]
      [] x = [s |-> 0, m |-> <<3428, 32347, 23490, 219>>, e |-> -51] ->
         [s |-> 1, m |-> <<14092, 8425, 4434, 147>>, e |-> -54]
      [] x = [s |-> 0, m |-> <<16195, 32727, 23679, 219>>, e |-> -51] ->
         [s |-> 1, m |-> <<9068, 17961, 5882, 147>>, e |-> -54]
      [] x = [s |-> 0, m |-> <<31397, 32740, 23679, 219>>, e |-> -51] ->
         [s |-> 1, m |-> <<14482, 18064, 5882, 147>>, e |-> -54]
      [] x = [s |-> 0, m |-> <<5545, 15170, 13177, 223>>, e |-> -51] ->
         [s |-> 1, m |-> <<3060, 26900, 3745, 175>>, e |-> -54]
      [] x = [s |-> 0, m |-> <<29745, 7414, 4129, 227>>, e |-> -51] ->
         [s |-> 1, m |-> <<2841, 9799, 26100, 202>>, e |-> -54]
      [] x = [s |-> 0, m |-> <<1643, 1339, 4652, 229>>, e |-> -51] ->
         [s |-> 1, m |-> <<5501, 3714, 16452, 217>>, e |-> -54]
      [] x = [s |-> 0, m |-> <<2592, 21150, 13515, 233>>, e |-> -51] ->
         [s |-> 1, m |-> <<1771, 12541, 30250, 247>>, e |-> -54]
      [] x = [s |-> 0, m |-> <<11828, 30305, 16696, 234>>, e |-> -51] ->
         [s |-> 1, m |-> <<17979, 6948, 18529, 255>>, e |-> -54]
      [] x = [s |-> 0, m |-> <<30161, 31827, 9137, 245>>, e |-> -51] ->
         [s |-> 1, m |-> <<6434, 21960, 4230, 163>>, e |-> -53]
      [] x = [s |-> 0, m |-> <<6142, 16227, 12547, 132>>, e |-> -50] ->
         [s |-> 1, m |-> <<20916, 343, 25374, 214>>, e |-> -53]
      [] x = [s |-> 0, m |-> <<10268, 2756, 5760, 135>>, e |-> -50] ->
         [s |-> 1, m |-> <<29450, 6194, 3284, 226>>, e |-> -53]
      [] x = [s |-> 0, m |-> <<28322, 19474, 17472, 137>>, e |-> -50] ->
         [s |-> 1, m |-> <<16226, 30436, 10611, 234>>, e |-> -53]
      [] x = [s |-> 0, m |-> <<23005, 30545, 8559, 139>>, e |-> -50] ->
         [s |-> 1, m |-> <<13448, 8990, 17913, 239>>, e |-> -53]
      [] x = [s |-> 0, m |-> <<29280, 21198, 16580, 140>>, e |-> -50] ->
         [s |-> 1, m |-> <<3606, 1618, 28738, 242>>, e |-> -53]
      [] x = [s |-> 0, m |-> <<26846, 2603, 21893, 147>>, e |-> -50] ->
         [s |-> 1, m |-> <<24305, 25715, 25482, 254>>, e |-> -53]
      [] x = [s |-> 0, m |-> <<1620, 1421, 21237, 149>>, e |-> -50] ->
         [s |-> 1, m |-> <<22307, 6781, 27367, 255>>, e |-> -53]
      [] x = [s |-> 0, m |-> <<8658, 32358, 26097, 150>>, e |-> -50] ->
         [s |-> 1, m |-> <<0, 0, 0, 128>>, e |-> -52]
      [] x = [s |-> 0, m |-> <<22812, 4516, 27108, 152>>, e |-> -50] ->
         [s |-> 1, m |-> <<22088, 22982, 15880, 255>>, e |-> -53]
      [] x = [s |-> 0, m |-> <<12802, 8489, 3287, 153>>, e |-> -50] ->
         [s |-> 1, m |-> <<16489, 17590, 11036, 255>>, e |-> -53]
      [] x = [s |-> 0, m |-> <<11065, 6417, 9352, 154>>, e |-> -50] ->
         [s |-> 1, m |-> <<12108, 14465, 15725, 254>>, e |-> -53]
      [] x = [s |-> 0, m |-> <<32659, 25925, 11400, 154>>, e |-> -50] ->
         [s |-> 1, m |-> <<17408, 6559, 13926, 254>>, e |-> -53]
      [] x = [s |-> 0, m |-> <<1125, 29302, 11736, 155>>, e |-> -50] ->
         [s |-> 1, m |-> <<27230, 28371, 13212, 253>>, e |-> -53]
      [] x = [s |-> 0, m |-> <<30948, 31383, 7489, 156>>, e |-> -50] ->
         [s |-> 1, m |-> <<24009, 4408, 10497, 252>>, e |-> -53]
      [] x = [s |-> 0, m |-> <<2672, 10373, 5335, 161>>, e |-> -50] ->
         [s |-> 1, m |-> <<22778, 25290, 22424, 242>>, e |-> -53]
      [] x = [s |-> 0, m |-> <<13538, 19325, 10866, 162>>, e |-> -50] ->
         [s |-> 1, m |-> <<17090, 12271, 17917, 239>>, e |-> -53]
      [] x = [s |-> 0, m |-> <<9624, 18402, 22809, 163>>, e |-> -50] ->
         [s |-> 1, m |-> <<11587, 994, 15730, 235>>, e |-> -53]
      [] x = [s |-> 0, m |-> <<1903, 6609, 28854, 163>>, e |-> -50] ->
         [s |-> 1, m |-> <<4729, 5775, 29400, 234>>, e |-> -53]
      [] x = [s |-> 0, m |-> <<22017, 21412, 31541, 163>>, e |-> -50] ->
         [s |-> 1, m |-> <<24834, 2521, 20827, 234>>, e |-> -53]
      [] x = [s |-> 0, m |-> <<3924, 6886, 10266, 170>>, e |-> -50] ->
         [s |-> 1, m |-> <<13802, 18306, 27666, 209>>, e |-> -53]
      [] x = [s |-> 0, m |-> <<16840, 4104, 24450, 170>>, e |-> -50] ->
         [s |-> 1, m |-> <<22820, 19200, 27580, 207>>, e |-> -53]
      [] x = [s |-> 0, m |-> <<9236, 21626, 17197, 172>>, e |-> -50] ->
         [s |-> 1, m |-> <<17973, 621, 7129, 199>>, e |-> -53]
      [] x = [s |-> 0, m |-> <<28745, 12971, 14592, 176>>, e |-> -50] ->
         [s |-> 1, m |-> <<27197, 8965, 2497, 178>>, e |-> -53]
      [] x = [s |-> 0, m |-> <<21800, 30075, 7183, 179>>, e |-> -50] ->
         [s |-> 1, m |-> <<24805, 19268, 15888, 161>>, e |-> -53]
      [] x = [s |-> 0, m |-> <<18173, 7663, 25194, 179>>, e |-> -50] ->
         [s |-> 1, m |-> <<22913, 13708, 1617, 158>>, e |-> -53]
      [] x = [s |-> 0, m |-> <<23018, 25461, 25309, 179>>, e |-> -50] ->
         [s |-> 1, m |-> <<20705, 7766, 890, 158>>, e |-> -53]
      [] x = [s |-> 0, m |-> <<8813, 29141, 25367, 179>>, e |-> -50] ->
         [s |-> 1, m |-> <<5065, 15672, 524, 158>>, e |-> -53]
      [] x = [s |-> 0, m |-> <<262, 5717, 466, 180>>, e |-> -50] ->
         [s |-> 1, m |-> <<28265, 25250, 16403, 156>>, e |-> -53]
      [] x = [s |-> 0, m |-> <<24985, 22565, 16850, 181>>, e |-> -50] ->
         [s |-> 1, m |-> <<18812, 28920, 27379, 146>>, e |-> -53]
      [] x = [s |-> 0, m |-> <<375, 13693, 19274, 182>>, e |-> -50] ->
         [s |-> 1, m |-> <<3116, 21028, 23470, 139>>, e |-> -53]
      [] x = [s |-> 0, m |-> <<24362, 15028, 22620, 183>>, e |-> -50] ->
         [s |-> 1, m |-> <<20458, 2447, 8089, 132>>, e |-> -53]
      [] x = [s |-> 0, m |-> <<32427, 6780, 10052, 184>>, e |-> -50] ->
         [s |-> 1, m |-> <<4, 0, 0, 128>>, e |-> -53]
      [] x = [s |-> 0, m |-> <<10837, 9306, 11256, 184>>, e |-> -50] ->
         [s |-> 1, m |-> <<20614, 9563, 16078, 255>>, e |-> -54]
      [] x = [s |-> 0, m |-> <<10390, 16001, 25997, 186>>, e |-> -50] ->
         [s |-> 1, m |-> <<31857, 11717, 26432, 220>>, e |-> -54]
      [] x = [s |-> 0, m |-> <<2472, 4210, 13847, 187>>, e |-> -50] ->
         [s |-> 1, m |-> <<6536, 16487, 22336, 211>>, e |-> -54]
      [] x = [s |-> 0, m |-> <<26752, 30352, 27134, 187>>, e |-> -50] ->
         [s |-> 1, m |-> <<16893, 16858, 24809, 205>>, e |-> -54]
      [] x = [s |-> 0, m |-> <<6417, 21054, 32646, 187>>, e |-> -50] ->
         [s |-> 1, m |-> <<1443, 24630, 9499, 203>>, e |-> -54]
      [] x = [s |-> 0, m |-> <<5104, 17760, 4761, 188>>, e |-> -50] ->
         [s |-> 1, m |-> <<29398, 20951, 3259, 201>>, e |-> -54]
      [] x = [s |-> 0, m |-> <<17036, 11229, 6480, 188>>, e |-> -50] ->
         [s |-> 1, m |-> <<9579, 2293, 10728, 200>>, e |-> -54]
      [] x = [s |-> 0, m |-> <<6126, 8057, 9809, 188>>, e |-> -50] ->
         [s |-> 1, m |-> <<9135, 26053, 27214, 198>>, e |-> -54]
      [] x = [s |-> 0, m |-> <<32748, 9935, 10196, 188>>, e |-> -50] ->
         [s |-> 1, m |-> <<15275, 15733, 21507, 198>>, e |-> -54]
      [] x = [s |-> 0, m |-> <<14809, 18744, 10604, 188>>, e |-> -50] ->
         [s |-> 1, m |-> <<5954, 14167, 15486, 198>>, e |-> -54]
      [] x = [s |-> 0, m |-> <<19040, 347, 12509, 188>>, e |-> -50] ->
         [s |-> 1, m |-> <<11678, 7556, 20155, 197>>, e |-> -54]
      [] x = [s |-> 0, m |-> <<22266, 5000, 31057, 188>>, e |-> -50] ->
         [s |-> 1, m |-> <<5138, 4749, 7526, 189>>, e |-> -54]
      [] x = [s |-> 0, m |-> <<26802, 31656, 31061, 188>>, e |-> -50] ->
         [s |-> 1, m |-> <<7456, 19079, 7454, 189>>, e |-> -54]
      [] x = [s |-> 0, m |-> <<15456, 13496, 14885, 189>>, e |-> -50] ->
         [s |-> 1, m |-> <<20303, 5262, 22165, 181>>, e |-> -54]
      [] x = [s |-> 0, m |-> <<4288, 5604, 24474, 189>>, e |-> -50] ->
         [s |-> 1, m |-> <<18230, 13734, 9553, 177>>, e |-> -54]
      [] x = [s |-> 0, m |-> <<24228, 17169, 31802, 189>>, e |-> -50] ->
         [s |-> 1, m |-> <<4741, 26455, 30484, 173>>, e |-> -54]
      [] x = [s |-> 0, m |-> <<15230, 15760, 10799, 190>>, e |-> -50] ->
         [s |-> 1, m |-> <<22272, 28383, 16924, 168>>, e |-> -54]
      [] x = [s |-> 0, m |-> <<15767, 12032, 24765, 190>>, e |-> -50] ->
         [s |-> 1, m |-> <<32338, 9319, 2045, 162>>, e |-> -54]
      [] x = [s |-> 0, m |-> <<23005, 3015, 18485, 191>>, e |-> -50] ->
         [s |-> 1, m |-> <<16273, 29017, 24364, 149>>, e |-> -54]
      [] x = [s |-> 0, m |-> <<11596, 1790, 17884, 192>>, e |-> -50] ->
         [s |-> 1, m |-> <<3244, 28620, 21485, 134>>, e |-> -54]
      [] x = [s |-> 0, m |-> <<11597, 1790, 17884, 192>>, e |-> -50] ->
         [s |-> 1, m |-> <<3229, 28620, 21485, 134>>, e |-> -54]
      [] x = [s |-> 0, m |-> <<304, 2130, 22989, 193>>, e |-> -50] ->
         [s |-> 1, m |-> <<30484, 2748, 15079, 233>>, e |-> -55]
      [] x = [s |-> 0, m |-> <<5455, 31111, 990, 194>>, e |-> -50] ->
         [s |-> 1, m |-> <<31639, 18775, 6801, 223>>, e |-> -55]
      [] x = [s |-> 0, m |-> <<20446, 1758, 22567, 194>>, e |-> -50] ->
         [s |-> 1, m |-> <<31130, 19979, 19595, 202>>, e |-> -55]
      [] x = [s |-> 0, m |-> <<31423, 27380, 6349, 196>>, e |-> -50] ->
         [s |-> 1, m |-> <<8964, 13797, 5916, 155>>, e |-> -55]
      [] x = [s |-> 0, m |-> <<15648, 15817, 8634, 196>>, e |-> -50] ->
         [s |-> 1, m |-> <<31390, 2084, 31944, 152>>, e |-> -55]
      [] x = [s |-> 0, m |-> <<7079, 27972, 16106, 196>>, e |-> -50] ->
         [s |-> 1, m |-> <<27840, 5663, 24762, 145>>, e |-> -55]
      [] x = [s |-> 0, m |-> <<1360, 30386, 24859, 196>>, e |-> -50] ->
         [s |-> 1, m |-> <<14720, 20422, 9496, 137>>, e |-> -55]
      [] x = [s |-> 0, m |-> <<31084, 18658, 29014, 196>>, e |-> -50] ->
         [s |-> 1, m |-> <<202, 13862, 8785, 133>>, e |-> -55]
      [] x = [s |-> 0, m |-> <<7634, 7116, 32707, 196>>, e |-> -50] ->
         [s |-> 1, m |-> <<28436, 27780, 22670, 129>>, e |-> -55]
      [] x = [s |-> 0, m |-> <<6924, 5589, 12973, 197>>, e |-> -50] ->
         [s |-> 1, m |-> <<2880, 26660, 3682, 234>>, e |-> -56]
      [] x = [s |-> 0, m |-> <<11748, 3915, 13033, 197>>, e |-> -50] ->
         [s |-> 1, m |-> <<10138, 7234, 32639, 233>>, e |-> -56]
      [] x = [s |-> 0, m |-> <<8543, 10317, 13152, 197>>, e |-> -50] ->
         [s |-> 1, m |-> <<13132, 20444, 25060, 233>>, e |-> -56]
      [] x = [s |-> 0, m |-> <<8020, 22686, 20179, 197>>, e |-> -50] ->
         [s |-> 1, m |-> <<4270, 7146, 4063, 220>>, e |-> -56]
      [] x = [s |-> 0, m |-> <<24123, 31046, 21638, 197>>, e |-> -50] ->
         [s |-> 1, m |-> <<32239, 31371, 9508, 217>>, e |-> -56]
      [] x = [s |-> 0, m |-> <<31394, 10891, 24586, 197>>, e |-> -50] ->
         [s |-> 1, m |-> <<9206, 5225, 18521, 211>>, e |-> -56]
      [] x = [s |-> 0, m |-> <<24831, 10759, 1547, 198>>, e |-> -50] ->
         [s |-> 1, m |-> <<3788, 5754, 21499, 192>>, e |-> -56]
      [] x = [s |-> 0, m |-> <<18947, 7230, 1557, 198>>, e |-> -50] ->
         [s |-> 1, m |-> <<30642, 28695, 20868, 192>>, e |-> -56]
      [] x = [s |-> 0, m |-> <<21837, 2234, 2924, 198>>, e |-> -50] ->
         [s |-> 1, m |-> <<2733, 4433, 32077, 189>>, e |-> -56]
      [] x = [s |-> 0, m |-> <<2470, 30936, 9021, 198>>, e |-> -50] ->
         [s |-> 1, m |-> <<26235, 24337, 3840, 178>>, e |-> -56]
      [] x = [s |-> 0, m |-> <<78, 4191, 14044, 198>>, e |-> -50] ->
         [s |-> 1, m |-> <<28407, 5818, 11253, 168>>, e |-> -56]
      [] x = [s |-> 0, m |-> <<5946, 28952, 17829, 198>>, e |-> -50] ->
         [s |-> 1, m |-> <<18378, 10047, 31893, 160>>, e |-> -56]
      [] x = [s |-> 0, m |-> <<1610, 20481, 18400, 199>>, e |-> -50] ->
         [s |-> 1, m |-> <<11660, 32661, 32086, 191>>, e |-> -57]
      [] x = [s |-> 0, m |-> <<29600, 11970, 18745, 199>>, e |-> -50] ->
         [s |-> 1, m |-> <<998, 12962, 20776, 190>>, e |-> -57]
      [] x = [s |-> 0, m |-> <<20550, 31723, 19372, 199>>, e |-> -50] ->
         [s |-> 1, m |-> <<23477, 5730, 6065, 188>>, e |-> -57]
      [] x = [s |-> 0, m |-> <<19063, 32695, 24990, 199>>, e |-> -50] ->
         [s |-> 1, m |-> <<986, 21705, 8527, 166>>, e |-> -57]
      [] x = [s |-> 0, m |-> <<14338, 16375, 30309, 199>>, e |-> -50] ->
         [s |-> 1, m |-> <<1891, 10010, 16381, 145>>, e |-> -57]
      [] x = [s |-> 0, m |-> <<552, 1576, 4393, 200>>, e |-> -50] ->
         [s |-> 1, m |-> <<14052, 4275, 16386, 237>>, e |-> -58]
      [] x = [s |-> 0, m |-> <<17198, 9907, 6282, 200>>, e |-> -50] ->
         [s |-> 1, m |-> <<5329, 31825, 24447, 222>>, e |-> -58]
      [] x = [s |-> 0, m |-> <<9391, 22759, 9044, 200>>, e |-> -50] ->
         [s |-> 1, m |-> <<29749, 17135, 5640, 201>>, e |-> -58]
      [] x = [s |-> 0, m |-> <<25841, 18037, 14776, 200>>, e |-> -50] ->
         [s |-> 1, m |-> <<21554, 24308, 13196, 156>>, e |-> -58]
      [] x = [s |-> 0, m |-> <<6560, 24, 2024, 201>>, e |-> -50] ->
         [s |-> 1, m |-> <<1380, 28424, 3588, 170>>, e |-> -70]
      [] x = [s |-> 0, m |-> <<11545, 8840, 2029, 201>>, e |-> -50] ->
         [s |-> 1, m |-> <<17604, 29801, 32767, 191>>, e |-> -77]
      [] x = [s |-> 0, m |-> <<17770, 9489, 2029, 201>>, e |-> -50] ->
         [s |-> 1, m |-> <<2444, 18643, 23019, 221>>, e |-> -78]
      [] x = [s |-> 0, m |-> <<9010, 9652, 2029, 201>>, e |-> -50] ->
         [s |-> 1, m |-> <<2444, 18643, 633, 181>>, e |-> -78]
      [] x = [s |-> 0, m |-> <<11544, 9864, 2029, 201>>, e |-> -50] ->
         [s |-> 1, m |-> <<2445, 2259, 0, 128>>, e |-> -78]
      [] x = [s |-> 0, m |-> <<11543, 10376, 2029, 201>>, e |-> -50] ->
         [s |-> 1, m |-> <<5890, 6538, 9766, 163>>, e |-> -102]
      [] x = [s |-> 0, m |-> <<11544, 10376, 2029, 201>>, e |-> -50] ->
         [s |-> 1, m |-> <<23559, 26152, 6296, 141>>, e |-> -104]
      [] x = [s |-> 0, m |-> <<13266, 8753, 5829, 242>>, e |-> -46] ->
         [s |-> 0, m |-> <<12461, 9811, 18980, 253>>, e |-> -53]

(* f64::cos, as libm returns it, on the arguments the specifications reach *)
f64_cos(x) ==
    CASE x = [s |-> 1, m |-> <<28385, 27122, 19457, 250>>, e |-> -19] ->
         [s |-> 1, m |-> <<30260, 22640, 31292, 255>>, e |-> -53]
      [] x = [s |-> 1, m |-> <<23728, 27122, 19457, 250>>, e |-> -19] ->
         [s |-> 1, m |-> <<13929, 6522, 32359, 255>>, e |-> -53]
      [] x = [s |-> 1, m |-> <<23727, 27122, 19457, 250>>, e |-> -19] ->
         [s |-> 1, m |-> <<28890, 11697, 32359, 255>>, e |-> -53]
      [] x = [s |-> 1, m |-> <<10409, 6715, 17233, 192>>, e |-> -28] ->
         [s |-> 1, m |-> <<1782, 30351, 1380, 227>>, e |-> -55]
      [] x = [s |-> 1, m |-> <<14250, 6109, 17233, 192>>, e |-> -28] ->
         [s |-> 1, m |-> <<2483, 26278, 20920, 152>>, e |-> -55]
      [] x = [s |-> 1, m |-> <<31660, 6089, 17233, 192>>, e |-> -28] ->
         [s |-> 1, m |-> <<6701, 29438, 7589, 150>>, e |-> -55]
      [] x = [s |-> 1, m |-> <<30994, 6089, 17233, 192>>, e |-> -28] ->
         [s |-> 1, m |-> <<14515, 17995, 7507, 150>>, e |-> -55]
      [] x = [s |-> 1, m |-> <<14582, 3251, 17233, 192>>, e |-> -28] ->
         [s |-> 0, m |-> <<3540, 2683, 22669, 202>>, e |-> -55]
      [] x = [s |-> 1, m |-> <<23738, 9700, 28134, 149>>, e |-> -28] ->
         [s |-> 1, m |-> <<13765, 32511, 12121, 209>>, e |-> -53]
      [] x = [s |-> 1, m |-> <<23736, 9700, 28134, 149>>, e |-> -28] ->
         [s |-> 1, m |-> <<29488, 921, 12122, 209>>, e |-> -53]
      [] x = [s |-> 1, m |-> <<22494, 9700, 28134, 149>>, e |-> -28] ->
         [s |-> 1, m |-> <<15615, 11859, 12144, 209>>, e |-> -53]
      [] x = [s |-> 1, m |-> <<8064, 9653, 28134, 149>>, e |-> -28] ->
         [s |-> 1, m |-> <<14366, 24264, 7214, 210>>, e |-> -53]
      [] x = [s |-> 1, m |-> <<17564, 7726, 28134, 149>>, e |-> -28] ->
         [s |-> 1, m |-> <<17501, 16487, 15636, 238>>, e |-> -53]
      [] x = [s |-> 1, m |-> <<26165, 16567, 8125, 147>>, e |-> -39] ->
         [s |-> 0, m |-> <<11750, 18407, 18238, 157>>, e |-> -53]
      [] x = [s |-> 1, m |-> <<24232, 8228, 7321, 147>>, e |-> -39] ->
         [s |-> 1, m |-> <<12194, 14058, 25363, 201>>, e |-> -53]
      [] x = [s |-> 1, m |-> <<14403, 31149, 10756, 196>>, e |-> -40] ->
         [s |-> 0, m |-> <<31526, 5162, 32195, 198>>, e |-> -53]
      [] x = [s |-> 1, m |-> <<16265, 14234, 9148, 196>>, e |-> -40] ->
         [s |-> 1, m |-> <<3353, 16270, 2264, 161>>, e |-> -53]
      [] x = [s |-> 1, m |-> <<15154, 21619, 6361, 196>>, e |-> -40] ->
         [s |-> 0, m |-> <<7707, 21507, 26321, 131>>, e |-> -54]
      [] x = [s |-> 1, m |-> <<9330, 3326, 4753, 196>>, e |-> -40] ->
         [s |-> 0, m |-> <<16708, 22616, 12061, 247>>, e |-> -53]
      [] x = [s |-> 1, m |-> <<12479, 20253, 10921, 196>>, e |-> -41] ->
         [s |-> 0, m |-> <<947, 10740, 13332, 247>>, e |-> -53]
      [] x = [s |-> 1, m |-> <<758, 15473, 10921, 196>>, e |-> -41] ->
         [s |-> 0, m |-> <<7355, 25786, 13178, 247>>, e |-> -53]
      [] x = [s |-> 1, m |-> <<734, 15473, 10921, 196>>, e |-> -41] ->
         [s |-> 0, m |-> <<14860, 25785, 13178, 247>>, e |-> -53]
      [] x = [s |-> 1, m |-> <<4854, 24335, 10525, 196>>, e |-> -41] ->
         [s |-> 0, m |-> <<30987, 6550, 5397, 230>>, e |-> -53]
      [] x = [s |-> 1, m |-> <<12740, 22590, 7308, 196>>, e |-> -41] ->
         [s |-> 1, m |-> <<30226, 12794, 5199, 224>>, e |-> -54]
      [] x = [s |-> 1, m |-> <<3386, 17013, 3908, 196>>, e |-> -41] ->
         [s |-> 1, m |-> <<25621, 16009, 7533, 219>>, e |-> -53]
      [] x = [s |-> 1, m |-> <<28197, 1198, 2946, 183>>, e |-> -44] ->
         [s |-> 1, m |-> <<3946, 28248, 20449, 187>>, e |-> -55]
      [] x = [s |-> 1, m |-> <<31857, 29260, 9977, 182>>, e |-> -44] ->
         [s |-> 0, m |-> <<17939, 1430, 21847, 251>>, e |-> -53]
      [] x = [s |-> 1, m |-> <<15624, 7498, 1462, 244>>, e |-> -45] ->
         [s |-> 0, m |-> <<26480, 3998, 13200, 138>>, e |-> -53]
      [] x = [s |-> 1, m |-> <<9662, 23276, 15525, 242>>, e |-> -45] ->
         [s |-> 1, m |-> <<13780, 20725, 11943, 215>>, e |-> -53]
      [] x = [s |-> 1, m |-> <<6864, 30219, 24652, 239>>, e |-> -45] ->
         [s |-> 0, m |-> <<3577, 15903, 6062, 140>>, e |-> -53]
      [] x = [s |-> 1, m |-> <<17116, 1893, 5947, 238>>, e |-> -45] ->
         [s |-> 0, m |-> <<17335, 22488, 6464, 214>>, e |-> -53]
      [] x = [s |-> 1, m |-> <<1356, 22567, 9205, 244>>, e |-> -46] ->
         [s |-> 1, m |-> <<10413, 1249, 19056, 237>>, e |-> -53]
      [] x = [s |-> 1, m |-> <<23838, 11888, 9199, 244>>, e |-> -46] ->
         [s |-> 1, m |-> <<28402, 13954, 18754, 237>>, e |-> -53]
      [] x = [s |-> 1, m |-> <<21829, 11888, 9199, 244>>, e |-> -46] ->
         [s |-> 1, m |-> <<30907, 13951, 18754, 237>>, e |-> -53]
      [] x = [s |-> 1, m |-> <<4951, 18817, 26831, 243>>, e |-> -46] ->
         [s |-> 1, m |-> <<9285, 12877, 14212, 209>>, e |-> -53]
      [] x = [s |-> 1, m |-> <<27937, 28520, 22189, 240>>, e |-> -46] ->
         [s |-> 0, m |-> <<11587, 1706, 7394, 147>>, e |-> -53]
      [] x = [s |-> 1, m |-> <<7082, 30380, 29436, 239>>, e |-> -46] ->
         [s |-> 0, m |-> <<22213, 10312, 23357, 215>>, e |-> -53]
      [] x = [s |-> 1, m |-> <<23499, 13887, 11688, 237>>, e |-> -46] ->
         [s |-> 0, m |-> <<16741, 8339, 14461, 195>>, e |-> -53]
      [] x = [s |-> 1, m |-> <<10605, 6376, 11291, 178>>, e |-> -46] ->
         [s |-> 0, m |-> <<11422, 11491, 27830, 181>>, e |-> -54]
      [] x = [s |-> 1, m |-> <<28722, 3822, 11289, 178>>, e |-> -46] ->
         [s |-> 0, m |-> <<25482, 20101, 28327, 181>>, e |-> -54]
      [] x = [s |-> 1, m |-> <<21387, 3822, 11289, 178>>, e |-> -46] ->
         [s |-> 0, m |-> <<11319, 20155, 28327, 181>>, e |-> -54]
      [] x = [s |-> 1, m |-> <<5942, 18863, 10142, 178>>, e |-> -46] ->
         [s |-> 0, m |-> <<29219, 23442, 6863, 190>>, e |-> -54]
      [] x = [s |-> 1, m |-> <<30810, 4975, 26109, 132>>, e |-> -46] ->
         [s |-> 1, m |-> <<5582, 18353, 7581, 233>>, e |-> -53]
      [] x = [s |-> 1, m |-> <<12684, 18920, 21468, 129>>, e |-> -46] ->
         [s |-> 1, m |-> <<23552, 24790, 2554, 211>>, e |-> -54]
      [] x = [s |-> 1, m |-> <<18727, 30234, 24948, 176>>, e |-> -47] ->
         [s |-> 0, m |-> <<16807, 23623, 15715, 250>>, e |-> -53]
      [] x = [s |-> 1, m |-> <<27646, 27809, 15666, 170>>, e |-> -47] ->
         [s |-> 0, m |-> <<141, 32262, 15967, 211>>, e |-> -55]
      [] x = [s |-> 1, m |-> <<16456, 22813, 19407, 159>>, e |-> -47] ->
         [s |-> 1, m |-> <<89, 18831, 14429, 150>>, e |-> -53]
      [] x = [s |-> 1, m |-> <<24696, 7814, 10120, 153>>, e |-> -47] ->
         [s |-> 0, m |-> <<11215, 16189, 4630, 207>>, e |-> -53]
      [] x = [s |-> 1, m |-> <<15695, 29448, 19216, 140>>, e |-> -47] ->
         [s |-> 1, m |-> <<17888, 20674, 27844, 212>>, e |-> -53]
      [] x = [s |-> 1, m |-> <<15576, 29448, 19216, 140>>, e |-> -47] ->
         [s |-> 1, m |-> <<22119, 20674, 27844, 212>>, e |-> -53]
      [] x = [s |-> 1, m |-> <<1038, 3943, 19214, 140>>, e |-> -47] ->
         [s |-> 1, m |-> <<11083, 13926, 27943, 212>>, e |-> -53]
      [] x = [s |-> 1, m |-> <<5441, 2826, 20805, 177>>, e |-> -48] ->
         [s |-> 1, m |-> <<32765, 26689, 6650, 250>>, e |-> -53]
      [] x = [s |-> 1, m |-> <<3809, 2826, 20805, 177>>, e |-> -48] ->
         [s |-> 1, m |-> <<11048, 26690, 6650, 250>>, e |-> -53]
      [] x = [s |-> 1, m |-> <<16853, 31095, 20789, 177>>, e |-> -48] ->
         [s |-> 1, m |-> <<30003, 9853, 6753, 250>>, e |-> -53]
      [] x = [s |-> 1, m |-> <<8803, 9973, 28122, 175>>, e |-> -48] ->
         [s |-> 1, m |-> <<29102, 31794, 32437, 255>>, e |-> -53]
      [] x = [s |-> 1, m |-> <<2444, 16020, 9555, 163>>, e |-> -48] ->
         [s |-> 0, m |-> <<1705, 18676, 27238, 145>>, e |-> -59]
      [] x = [s |-> 1, m |-> <<17459, 23023, 317, 150>>, e |-> -48] ->
         [s |-> 0, m |-> <<23271, 10143, 25003, 254>>, e |-> -53]
      [] x = [s |-> 1, m |-> <<1565, 6940, 25941, 181>>, e |-> -49] ->
         [s |-> 0, m |-> <<14563, 4133, 14079, 183>>, e |-> -54]
      [] x = [s |-> 1, m |-> <<9147, 10454, 24250, 181>>, e |-> -49] ->
         [s |-> 0, m |-> <<17245, 1124, 29067, 181>>, e |-> -54]
      [] x = [s |-> 1, m |-> <<9143, 10454, 24250, 181>>, e |-> -49] ->
         [s |-> 0, m |-> <<17125, 1124, 29067, 181>>, e |-> -54]
      [] x = [s |-> 1, m |-> <<29111, 2390, 24250, 181>>, e |-> -49] ->
         [s |-> 0, m |-> <<22162, 22070, 29059, 181>>, e |-> -54]
      [] x = [s |-> 1, m |-> <<27407, 31484, 9200, 169>>, e |-> -49] ->
         [s |-> 1, m |-> <<15881, 21533, 22253, 206>>, e |-> -54]
      [] x = [s |-> 1, m |-> <<16511, 17777, 14124, 161>>, e |-> -49] ->
         [s |-> 1, m |-> <<1059, 7491, 16515, 201>>, e |-> -53]
      [] x = [s |-> 1, m |-> <<16504, 17777, 14124, 161>>, e |-> -49] ->
         [s |-> 1, m |-> <<1128, 7491, 16515, 201>>, e |-> -53]
      [] x = [s |-> 1, m |-> <<16492, 17777, 14124, 161>>, e |-> -49] ->
         [s |-> 1, m |-> <<1246, 7491, 16515, 201>>, e |-> -53]
      [] x = [s |-> 1, m |-> <<16429, 17777, 14124, 161>>, e |-> -49] ->
         [s |-> 1, m |-> <<1868, 7491, 16515, 201>>, e |-> -53]
      [] x = [s |-> 1, m |-> <<16132, 17777, 14124, 161>>, e |-> -49] ->
         [s |-> 1, m |-> <<4799, 7491, 16515, 201>>, e |-> -53]
      [] x = [s |-> 1, m |-> <<14751, 17777, 14124, 161>>, e |-> -49] ->
         [s |-> 1, m |-> <<18428, 7491, 16515, 201>>, e |-> -53]
      [] x = [s |-> 1, m |-> <<8322, 17777, 14124, 161>>, e |-> -49] ->
         [s |-> 1, m |-> <<16338, 7493, 16515, 201>>, e |-> -53]
      [] x = [s |-> 1, m |-> <<11206, 17776, 14124, 161>>, e |-> -49] ->
         [s |-> 1, m |-> <<16342, 7502, 16515, 201>>, e |-> -53]
      [] x = [s |-> 1, m |-> <<3294, 17772, 14124, 161>>, e |-> -49] ->
         [s |-> 1, m |-> <<11676, 7544, 16515, 201>>, e |-> -53]
      [] x = [s |-> 1, m |-> <<12338, 17752, 14124, 161>>, e |-> -49] ->
         [s |-> 1, m |-> <<212, 7739, 16515, 201>>, e |-> -53]
      [] x = [s |-> 1, m |-> <<21447, 17660, 14124, 161>>, e |-> -49] ->
         [s |-> 1, m |-> <<6001, 8644, 16515, 201>>, e |-> -53]
      [] x = [s |-> 1, m |-> <<4059, 17234, 14124, 161>>, e |-> -49] ->
         [s |-> 1, m |-> <<15865, 12853, 16515, 201>>, e |-> -53]
      [] x = [s |-> 1, m |-> <<24029, 15250, 14124, 161>>, e |-> -49] ->
         [s |-> 1, m |-> <<31458, 32426, 16515, 201>>, e |-> -53]
      [] x = [s |-> 1, m |-> <<22024, 6029, 14124, 161>>, e |-> -49] ->
         [s |-> 1, m |-> <<24886, 25122, 16518, 201>>, e |-> -53]
      [] x = [s |-> 1, m |-> <<25787, 28734, 14122, 161>>, e |-> -49] ->
         [s |-> 1, m |-> <<22742, 21822, 16531, 201>>, e |-> -53]
      [] x = [s |-> 1, m |-> <<10876, 27234, 14116, 161>>, e |-> -49] ->
         [s |-> 1, m |-> <<14988, 10792, 16591, 201>>, e |-> -53]
      [] x = [s |-> 1, m |-> <<29942, 12843, 14089, 161>>, e |-> -49] ->
         [s |-> 1, m |-> <<22074, 3406, 16862, 201>>, e |-> -53]
      [] x = [s |-> 1, m |-> <<11233, 1312, 13974, 161>>, e |-> -49] ->
         [s |-> 1, m |-> <<31596, 7198, 18000, 201>>, e |-> -53]
      [] x = [s |-> 1, m |-> <<10398, 13287, 13587, 161>>, e |-> -49] ->
         [s |-> 1, m |-> <<5834, 19804, 21812, 201>>, e |-> -53]
      [] x = [s |-> 1, m |-> <<16801, 20642, 12713, 161>>, e |-> -49] ->
         [s |-> 1, m |-> <<20450, 5556, 30415, 201>>, e |-> -53]
      [] x = [s |-> 1, m |-> <<17001, 16464, 25051, 160>>, e |-> -49] ->
         [s |-> 1, m |-> <<7306, 28923, 29658, 207>>, e |-> -53]
      [] x = [s |-> 1, m |-> <<6694, 12079, 23356, 160>>, e |-> -49] ->
         [s |-> 1, m |-> <<13323, 13224, 12680, 208>>, e |-> -53]
      [] x = [s |-> 1, m |-> <<27710, 9543, 22583, 160>>, e |-> -49] ->
         [s |-> 1, m |-> <<11880, 20711, 19857, 208>>, e |-> -53]
      [] x = [s |-> 1, m |-> <<32528, 29299, 22349, 160>>, e |-> -49] ->
         [s |-> 1, m |-> <<7991, 18479, 22021, 208>>, e |-> -53]
      [] x = [s |-> 1, m |-> <<11848, 6181, 22294, 160>>, e |-> -49] ->
         [s |-> 1, m |-> <<13408, 27368, 22537, 208>>, e |-> -53]
      [] x = [s |-> 1, m |-> <<1978, 29660, 22281, 160>>, e |-> -49] ->
         [s |-> 1, m |-> <<25093, 21840, 22651, 208>>, e |-> -53]
      [] x = [s |-> 1, m |-> <<24192, 8159, 22279, 160>>, e |-> -49] ->
         [s |-> 1, m |-> <<28177, 9191, 22676, 208>>, e |-> -53]
      [] x = [s |-> 1, m |-> <<32462, 22188, 22278, 160>>, e |-> -49] ->
         [s |-> 1, m |-> <<31434, 18999, 22681, 208>>, e |-> -53]
      [] x = [s |-> 1, m |-> <<12288, 18158, 22278, 160>>, e |-> -49] ->
         [s |-> 1, m |-> <<26422, 23582, 22682, 208>>, e |-> -53]
      [] x = [s |-> 1, m |-> <<19153, 17291, 22278, 160>>, e |-> -49] ->
         [s |-> 1, m |-> <<5424, 31615, 22682, 208>>, e |-> -53]
      [] x = [s |-> 1, m |-> <<6162, 17105, 22278, 160>>, e |-> -49] ->
         [s |-> 1, m |-> <<15102, 574, 22683, 208>>, e |-> -53]
      [] x = [s |-> 1, m |-> <<3449, 17065, 22278, 160>>, e |-> -49] ->
         [s |-> 1, m |-> <<29472, 945, 22683, 208>>, e |-> -53]
      [] x = [s |-> 1, m |-> <<15919, 17056, 22278, 160>>, e |-> -49] ->
         [s |-> 1, m |-> <<25361, 1025, 22683, 208>>, e |-> -53]
      [] x = [s |-> 1, m |-> <<20724, 17054, 22278, 160>>, e |-> -49] ->
         [s |-> 1, m |-> <<31086, 1042, 22683, 208>>, e |-> -53]
      [] x = [s |-> 1, m |-> <<7659, 17054, 22278, 160>>, e |-> -49] ->
         [s |-> 1, m |-> <<21084, 1046, 22683, 208>>, e |-> -53]
      [] x = [s |-> 1, m |-> <<4852, 17054, 22278, 160>>, e |-> -49] ->
         [s |-> 1, m |-> <<14328, 1047, 22683, 208>>, e |-> -53]
      [] x = [s |-> 1, m |-> <<4250, 17054, 22278, 160>>, e |-> -49] ->
         [s |-> 1, m |-> <<19906, 1047, 22683, 208>>, e |-> -53]
      [] x = [s |-> 1, m |-> <<4120, 17054, 22278, 160>>, e |-> -49] ->
         [s |-> 1, m |-> <<21111, 1047, 22683, 208>>, e |-> -53]
      [] x = [s |-> 1, m |-> <<4098, 17054, 22278, 160>>, e |-> -49] ->
         [s |-> 1, m |-> <<21315, 1047, 22683, 208>>, e |-> -53]
      [] x = [s |-> 1, m |-> <<4085, 17054, 22278, 160>>, e |-> -49] ->
         [s |-> 1, m |-> <<21435, 1047, 22683, 208>>, e |-> -53]
      [] x = [s |-> 1, m |-> <<16795, 15840, 13358, 160>>, e |-> -49] ->
         [s |-> 1, m |-> <<8681, 12183, 6045, 211>>, e |-> -53]
      [] x = [s |-> 1, m |-> <<30434, 24033, 16322, 159>>, e |-> -49] ->
         [s |-> 1, m |-> <<4589, 17030, 2109, 219>>, e |-> -53]
      [] x = [s |-> 1, m |-> <<6878, 3039, 28543, 157>>, e |-> -49] ->
         [s |-> 1, m |-> <<22490, 13426, 12450, 231>>, e |-> -53]
      [] x = [s |-> 1, m |-> <<24906, 24836, 10246, 157>>, e |-> -49] ->
         [s |-> 1, m |-> <<25350, 19642, 1999, 235>>, e |-> -53]
      [] x = [s |-> 1, m |-> <<30499, 6569, 4889, 157>>, e |-> -49] ->
         [s |-> 1, m |-> <<29503, 31572, 2782, 236>>, e |-> -53]
      [] x = [s |-> 1, m |-> <<30491, 6569, 4889, 157>>, e |-> -49] ->
         [s |-> 1, m |-> <<29553, 31572, 2782, 236>>, e |-> -53]
      [] x = [s |-> 1, m |-> <<30478, 6569, 4889, 157>>, e |-> -49] ->
         [s |-> 1, m |-> <<29633, 31572, 2782, 236>>, e |-> -53]
      [] x = [s |-> 1, m |-> <<30400, 6569, 4889, 157>>, e |-> -49] ->
         [s |-> 1, m |-> <<30116, 31572, 2782, 236>>, e |-> -53]
      [] x = [s |-> 1, m |-> <<30039, 6569, 4889, 157>>, e |-> -49] ->
         [s |-> 1, m |-> <<32350, 31572, 2782, 236>>, e |-> -53]
      [] x = [s |-> 1, m |-> <<28358, 6569, 4889, 157>>, e |-> -49] ->
         [s |-> 1, m |-> <<9982, 31573, 2782, 236>>, e |-> -53]
      [] x = [s |-> 1, m |-> <<20534, 6569, 4889, 157>>, e |-> -49] ->
         [s |-> 1, m |-> <<25622, 31574, 2782, 236>>, e |-> -53]
      [] x = [s |-> 1, m |-> <<16930, 6568, 4889, 157>>, e |-> -49] ->
         [s |-> 1, m |-> <<21286, 31581, 2782, 236>>, e |-> -53]
      [] x = [s |-> 1, m |-> <<11613, 6563, 4889, 157>>, e |-> -49] ->
         [s |-> 1, m |-> <<19310, 31613, 2782, 236>>, e |-> -53]
      [] x = [s |-> 1, m |-> <<11421, 6539, 4889, 157>>, e |-> -49] ->
         [s |-> 1, m |-> <<3843, 31762, 2782, 236>>, e |-> -53]
      [] x = [s |-> 1, m |-> <<23409, 6427, 4889, 157>>, e |-> -49] ->
         [s |-> 1, m |-> <<26707, 32452, 2782, 236>>, e |-> -53]
      [] x = [s |-> 1, m |-> <<19254, 5908, 4889, 157>>, e |-> -49] ->
         [s |-> 1, m |-> <<24009, 2896, 2783, 236>>, e |-> -53]
      [] x = [s |-> 1, m |-> <<20453, 3494, 4889, 157>>, e |-> -49] ->
         [s |-> 1, m |-> <<9631, 17832, 2783, 236>>, e |-> -53]
      [] x = [s |-> 1, m |-> <<28232, 25039, 4888, 157>>, e |-> -49] ->
         [s |-> 1, m |-> <<5855, 21733, 2785, 236>>, e |-> -53]
      [] x = [s |-> 1, m |-> <<8696, 5681, 4887, 157>>, e |-> -49] ->
         [s |-> 1, m |-> <<22508, 16566, 2795, 236>>, e |-> -53]
      [] x = [s |-> 1, m |-> <<9885, 26763, 4879, 157>>, e |-> -49] ->
         [s |-> 1, m |-> <<21090, 687, 2841, 236>>, e |-> -53]
      [] x = [s |-> 1, m |-> <<2111, 14913, 4846, 157>>, e |-> -49] ->
         [s |-> 1, m |-> <<19587, 13439, 3047, 236>>, e |-> -53]
      [] x = [s |-> 1, m |-> <<17142, 22481, 4706, 157>>, e |-> -49] ->
         [s |-> 1, m |-> <<2502, 24238, 3911, 236>>, e |-> -53]
      [] x = [s |-> 1, m |-> <<8480, 27965, 4243, 157>>, e |-> -49] ->
         [s |-> 1, m |-> <<17111, 31593, 6769, 236>>, e |-> -53]
      [] x = [s |-> 1, m |-> <<16638, 20148, 3229, 157>>, e |-> -49] ->
         [s |-> 1, m |-> <<5597, 9915, 13012, 236>>, e |-> -53]
      [] x = [s |-> 1, m |-> <<23340, 401, 23808, 156>>, e |-> -49] ->
         [s |-> 1, m |-> <<9679, 8608, 20225, 238>>, e |-> -53]
      [] x = [s |-> 1, m |-> <<14734, 25773, 23286, 156>>, e |-> -49] ->
         [s |-> 1, m |-> <<23625, 1490, 23242, 238>>, e |-> -53]
      [] x = [s |-> 1, m |-> <<27639, 4016, 23056, 156>>, e |-> -49] ->
         [s |-> 1, m |-> <<2469, 20621, 24574, 238>>, e |-> -53]
      [] x = [s |-> 1, m |-> <<21658, 9853, 22987, 156>>, e |-> -49] ->
         [s |-> 1, m |-> <<15905, 30518, 24971, 238>>, e |-> -53]
      [] x = [s |-> 1, m |-> <<30400, 30459, 22970, 156>>, e |-> -49] ->
         [s |-> 1, m |-> <<22224, 13780, 25066, 238>>, e |-> -53]
      [] x = [s |-> 1, m |-> <<6194, 10565, 22967, 156>>, e |-> -49] ->
         [s |-> 1, m |-> <<22591, 7825, 25087, 238>>, e |-> -53]
      [] x = [s |-> 1, m |-> <<22896, 17778, 22966, 156>>, e |-> -49] ->
         [s |-> 1, m |-> <<14894, 24237, 25091, 238>>, e |-> -53]
      [] x = [s |-> 1, m |-> <<2347, 12277, 22966, 156>>, e |-> -49] ->
         [s |-> 1, m |-> <<5414, 23221, 25092, 238>>, e |-> -53]
      [] x = [s |-> 1, m |-> <<23174, 11093, 22966, 156>>, e |-> -49] ->
         [s |-> 1, m |-> <<24557, 30050, 25092, 238>>, e |-> -53]
      [] x = [s |-> 1, m |-> <<7314, 10839, 22966, 156>>, e |-> -49] ->
         [s |-> 1, m |-> <<15072, 31519, 25092, 238>>, e |-> -53]
      [] x = [s |-> 1, m |-> <<16333, 10784, 22966, 156>>, e |-> -49] ->
         [s |-> 1, m |-> <<9649, 31835, 25092, 238>>, e |-> -53]
      [] x = [s |-> 1, m |-> <<23934, 10772, 22966, 156>>, e |-> -49] ->
         [s |-> 1, m |-> <<6936, 31903, 25092, 238>>, e |-> -53]
      [] x = [s |-> 1, m |-> <<6547, 10770, 22966, 156>>, e |-> -49] ->
         [s |-> 1, m |-> <<26760, 31917, 25092, 238>>, e |-> -53]
      [] x = [s |-> 1, m |-> <<21484, 10769, 22966, 156>>, e |-> -49] ->
         [s |-> 1, m |-> <<31364, 31920, 25092, 238>>, e |-> -53]
      [] x = [s |-> 1, m |-> <<17649, 10769, 22966, 156>>, e |-> -49] ->
         [s |-> 1, m |-> <<20729, 31921, 25092, 238>>, e |-> -53]
      [] x = [s |-> 1, m |-> <<16825, 10769, 22966, 156>>, e |-> -49] ->
         [s |-> 1, m |-> <<25485, 31921, 25092, 238>>, e |-> -53]
      [] x = [s |-> 1, m |-> <<16647, 10769, 22966, 156>>, e |-> -49] ->
         [s |-> 1, m |-> <<26512, 31921, 25092, 238>>, e |-> -53]
      [] x = [s |-> 1, m |-> <<16610, 10769, 22966, 156>>, e |-> -49] ->
         [s |-> 1, m |-> <<26726, 31921, 25092, 238>>, e |-> -53]
      [] x = [s |-> 1, m |-> <<16602, 10769, 22966, 156>>, e |-> -49] ->
         [s |-> 1, m |-> <<26772, 31921, 25092, 238>>, e |-> -53]
      [] x = [s |-> 1, m |-> <<16599, 10769, 22966, 156>>, e |-> -49] ->
         [s |-> 1, m |-> <<26789, 31921, 25092, 238>>, e |-> -53]
      [] x = [s |-> 1, m |-> <<17151, 12773, 10061, 218>>, e |-> -50] ->
         [s |-> 0, m |-> <<13724, 24708, 23486, 219>>, e |-> -53]
      [] x = [s |-> 1, m |-> <<11952, 27816, 2646, 212>>, e |-> -50] ->
         [s |-> 0, m |-> <<13759, 26726, 31866, 240>>, e |-> -53]
      [] x = [s |-> 1, m |-> <<11946, 27816, 2646, 212>>, e |-> -50] ->
         [s |-> 0, m |-> <<13776, 26726, 31866, 240>>, e |-> -53]
      [] x = [s |-> 1, m |-> <<11932, 27816, 2646, 212>>, e |-> -50] ->
         [s |-> 0, m |-> <<13813, 26726, 31866, 240>>, e |-> -53]
      [] x = [s |-> 1, m |-> <<11863, 27816, 2646, 212>>, e |-> -50] ->
         [s |-> 0, m |-> <<14000, 26726, 31866, 240>>, e |-> -53]
      [] x = [s |-> 1, m |-> <<11530, 27816, 2646, 212>>, e |-> -50] ->
         [s |-> 0, m |-> <<14899, 26726, 31866, 240>>, e |-> -53]
      [] x = [s |-> 1, m |-> <<9991, 27816, 2646, 212>>, e |-> -50] ->
         [s |-> 0, m |-> <<19055, 26726, 31866, 240>>, e |-> -53]
      [] x = [s |-> 1, m |-> <<2826, 27816, 2646, 212>>, e |-> -50] ->
         [s |-> 0, m |-> <<5637, 26727, 31866, 240>>, e |-> -53]
      [] x = [s |-> 1, m |-> <<2282, 27815, 2646, 212>>, e |-> -50] ->
         [s |-> 0, m |-> <<30063, 26729, 31866, 240>>, e |-> -53]
      [] x = [s |-> 1, m |-> <<11202, 27810, 2646, 212>>, e |-> -50] ->
         [s |-> 0, m |-> <<22456, 26742, 31866, 240>>, e |-> -53]
      [] x = [s |-> 1, m |-> <<11675, 27788, 2646, 212>>, e |-> -50] ->
         [s |-> 0, m |-> <<1947, 26802, 31866, 240>>, e |-> -53]
      [] x = [s |-> 1, m |-> <<3843, 27686, 2646, 212>>, e |-> -50] ->
         [s |-> 0, m |-> <<5429, 27078, 31866, 240>>, e |-> -53]
      [] x = [s |-> 1, m |-> <<22278, 27210, 2646, 212>>, e |-> -50] ->
         [s |-> 0, m |-> <<4257, 28362, 31866, 240>>, e |-> -53]
      [] x = [s |-> 1, m |-> <<28506, 24999, 2646, 212>>, e |-> -50] ->
         [s |-> 0, m |-> <<20750, 1564, 31867, 240>>, e |-> -53]
      [] x = [s |-> 1, m |-> <<16305, 14721, 2646, 212>>, e |-> -50] ->
         [s |-> 0, m |-> <<11307, 29322, 31867, 240>>, e |-> -53]
      [] x = [s |-> 1, m |-> <<12051, 32515, 2644, 212>>, e |-> -50] ->
         [s |-> 0, m |-> <<5114, 27182, 31871, 240>>, e |-> -53]
      [] x = [s |-> 1, m |-> <<18486, 8295, 2638, 212>>, e |-> -50] ->
         [s |-> 0, m |-> <<16993, 948, 31890, 240>>, e |-> -53]
      [] x = [s |-> 1, m |-> <<507, 21801, 2607, 212>>, e |-> -50] ->
         [s |-> 0, m |-> <<21769, 20614, 31972, 240>>, e |-> -53]
      [] x = [s |-> 1, m |-> <<9869, 1378, 2479, 212>>, e |-> -50] ->
         [s |-> 0, m |-> <<15408, 29259, 32319, 240>>, e |-> -53]
      [] x = [s |-> 1, m |-> <<7151, 16953, 2047, 212>>, e |-> -50] ->
         [s |-> 0, m |-> <<6688, 2554, 716, 241>>, e |-> -53]
      [] x = [s |-> 1, m |-> <<9650, 31792, 1069, 212>>, e |-> -50] ->
         [s |-> 0, m |-> <<18941, 13021, 3348, 241>>, e |-> -53]
      [] x = [s |-> 1, m |-> <<29730, 16795, 9997, 211>>, e |-> -50] ->
         [s |-> 0, m |-> <<15307, 12315, 32646, 242>>, e |-> -53]
      [] x = [s |-> 1, m |-> <<3883, 30436, 7927, 211>>, e |-> -50] ->
         [s |-> 0, m |-> <<27326, 19495, 5072, 243>>, e |-> -53]
      [] x = [s |-> 1, m |-> <<31900, 1659, 6979, 211>>, e |-> -50] ->
         [s |-> 0, m |-> <<21324, 23030, 7443, 243>>, e |-> -53]
      [] x = [s |-> 1, m |-> <<9615, 31222, 6691, 211>>, e |-> -50] ->
         [s |-> 0, m |-> <<13059, 27274, 8159, 243>>, e |-> -53]
      [] x = [s |-> 1, m |-> <<6023, 12693, 6623, 211>>, e |-> -50] ->
         [s |-> 0, m |-> <<23308, 25293, 8330, 243>>, e |-> -53]
      [] x = [s |-> 1, m |-> <<747, 8714, 6608, 211>>, e |-> -50] ->
         [s |-> 0, m |-> <<3763, 15281, 8368, 243>>, e |-> -53]
      [] x = [s |-> 1, m |-> <<18287, 32637, 6604, 211>>, e |-> -50] ->
         [s |-> 0, m |-> <<24217, 20227, 8376, 243>>, e |-> -53]
      [] x = [s |-> 1, m |-> <<17830, 9568, 6604, 211>>, e |-> -50] ->
         [s |-> 0, m |-> <<29236, 12195, 8378, 243>>, e |-> -53]
      [] x = [s |-> 1, m |-> <<16426, 4606, 6604, 211>>, e |-> -50] ->
         [s |-> 0, m |-> <<25094, 24564, 8378, 243>>, e |-> -53]
      [] x = [s |-> 1, m |-> <<13287, 3539, 6604, 211>>, e |-> -50] ->
         [s |-> 0, m |-> <<23347, 27224, 8378, 243>>, e |-> -53]
      [] x = [s |-> 1, m |-> <<30635, 3309, 6604, 211>>, e |-> -50] ->
         [s |-> 0, m |-> <<23368, 27796, 8378, 243>>, e |-> -53]
      [] x = [s |-> 1, m |-> <<19315, 3260, 6604, 211>>, e |-> -50] ->
         [s |-> 0, m |-> <<23475, 27919, 8378, 243>>, e |-> -53]
      [] x = [s |-> 1, m |-> <<32051, 3249, 6604, 211>>, e |-> -50] ->
         [s |-> 0, m |-> <<5480, 27946, 8378, 243>>, e |-> -53]
      [] x = [s |-> 1, m |-> <<22822, 3247, 6604, 211>>, e |-> -50] ->
         [s |-> 0, m |-> <<28006, 27951, 8378, 243>>, e |-> -53]
      [] x = [s |-> 1, m |-> <<6739, 3247, 6604, 211>>, e |-> -50] ->
         [s |-> 0, m |-> <<2560, 27953, 8378, 243>>, e |-> -53]
      [] x = [s |-> 1, m |-> <<3283, 3247, 6604, 211>>, e |-> -50] ->
         [s |-> 0, m |-> <<11175, 27953, 8378, 243>>, e |-> -53]
      [] x = [s |-> 1, m |-> <<2541, 3247, 6604, 211>>, e |-> -50] ->
         [s |-> 0, m |-> <<13025, 27953, 8378, 243>>, e |-> -53]
      [] x = [s |-> 1, m |-> <<2380, 3247, 6604, 211>>, e |-> -50] ->
         [s |-> 0, m |-> <<13426, 27953, 8378, 243>>, e |-> -53]
      [] x = [s |-> 1, m |-> <<2355, 3247, 6604, 211>>, e |-> -50] ->
         [s |-> 0, m |-> <<13488, 27953, 8378, 243>>, e |-> -53]
      [] x = [s |-> 1, m |-> <<2338, 3247, 6604, 211>>, e |-> -50] ->
         [s |-> 0, m |-> <<13531, 27953, 8378, 243>>, e |-> -53]
      [] x = [s |-> 1, m |-> <<5701, 20222, 28170, 210>>, e |-> -50] ->
         [s |-> 0, m |-> <<16059, 13520, 3077, 244>>, e |-> -53]
      [] x = [s |-> 1, m |-> <<12617, 15802, 19760, 209>>, e |-> -50] ->
         [s |-> 0, m |-> <<14643, 2383, 30644, 246>>, e |-> -53]
      [] x = [s |-> 1, m |-> <<13623, 30676, 2482, 205>>, e |-> -50] ->
         [s |-> 0, m |-> <<3458, 2325, 32400, 253>>, e |-> -53]
      [] x = [s |-> 1, m |-> <<22688, 21335, 29659, 201>>, e |-> -50] ->
         [s |-> 0, m |-> <<27406, 29282, 29855, 255>>, e |-> -53]
      [] x = [s |-> 1, m |-> <<7001, 10020, 28025, 200>>, e |-> -50] ->
         [s |-> 0, m |-> <<17192, 1903, 32593, 255>>, e |-> -53]
      [] x = [s |-> 1, m |-> <<6951, 10020, 28025, 200>>, e |-> -50] ->
         [s |-> 0, m |-> <<17189, 1903, 32593, 255>>, e |-> -53]
      [] x = [s |-> 1, m |-> <<6864, 10020, 28025, 200>>, e |-> -50] ->
         [s |-> 0, m |-> <<17185, 1903, 32593, 255>>, e |-> -53]
      [] x = [s |-> 1, m |-> <<6351, 10020, 28025, 200>>, e |-> -50] ->
         [s |-> 0, m |-> <<17158, 1903, 32593, 255>>, e |-> -53]
      [] x = [s |-> 1, m |-> <<3975, 10020, 28025, 200>>, e |-> -50] ->
         [s |-> 0, m |-> <<17036, 1903, 32593, 255>>, e |-> -53]
      [] x = [s |-> 1, m |-> <<25665, 10019, 28025, 200>>, e |-> -50] ->
         [s |-> 0, m |-> <<16463, 1903, 32593, 255>>, e |-> -53]
      [] x = [s |-> 1, m |-> <<6865, 10018, 28025, 200>>, e |-> -50] ->
         [s |-> 0, m |-> <<13799, 1903, 32593, 255>>, e |-> -53]
      [] x = [s |-> 1, m |-> <<29307, 10010, 28025, 200>>, e |-> -50] ->
         [s |-> 0, m |-> <<1415, 1903, 32593, 255>>, e |-> -53]
      [] x = [s |-> 1, m |-> <<28637, 9976, 28025, 200>>, e |-> -50] ->
         [s |-> 0, m |-> <<9354, 1901, 32593, 255>>, e |-> -53]
      [] x = [s |-> 1, m |-> <<21933, 9818, 28025, 200>>, e |-> -50] ->
         [s |-> 0, m |-> <<3659, 1893, 32593, 255>>, e |-> -53]
      [] x = [s |-> 1, m |-> <<31880, 9082, 28025, 200>>, e |-> -50] ->
         [s |-> 0, m |-> <<3313, 1855, 32593, 255>>, e |-> -53]
      [] x = [s |-> 1, m |-> <<26173, 5661, 28025, 200>>, e |-> -50] ->
         [s |-> 0, m |-> <<11163, 1678, 32593, 255>>, e |-> -53]
      [] x = [s |-> 1, m |-> <<5741, 22521, 28024, 200>>, e |-> -50] ->
         [s |-> 0, m |-> <<11809, 856, 32593, 255>>, e |-> -53]
      [] x = [s |-> 1, m |-> <<6934, 14096, 28022, 200>>, e |-> -50] ->
         [s |-> 0, m |-> <<3560, 29802, 32592, 255>>, e |-> -53]
      [] x = [s |-> 1, m |-> <<869, 31013, 28011, 200>>, e |-> -50] ->
         [s |-> 0, m |-> <<31364, 12031, 32592, 255>>, e |-> -53]
      [] x = [s |-> 1, m |-> <<14953, 15132, 27963, 200>>, e |-> -50] ->
         [s |-> 0, m |-> <<4591, 27796, 32589, 255>>, e |-> -53]
      [] x = [s |-> 1, m |-> <<31744, 17875, 27743, 200>>, e |-> -50] ->
         [s |-> 0, m |-> <<18342, 6482, 32578, 255>>, e |-> -53]
      [] x = [s |-> 1, m |-> <<11476, 14436, 26821, 200>>, e |-> -50] ->
         [s |-> 0, m |-> <<12988, 10837, 32525, 255>>, e |-> -53]
      [] x = [s |-> 1, m |-> <<28516, 5918, 23759, 200>>, e |-> -50] ->
         [s |-> 0, m |-> <<24873, 7204, 32303, 255>>, e |-> -53]
      [] x = [s |-> 1, m |-> <<23919, 13725, 17001, 200>>, e |-> -50] ->
         [s |-> 0, m |-> <<30457, 30714, 31559, 255>>, e |-> -53]
      [] x = [s |-> 1, m |-> <<28445, 22952, 29039, 197>>, e |-> -50] ->
         [s |-> 0, m |-> <<8172, 7281, 24261, 254>>, e |-> -53]
      [] x = [s |-> 1, m |-> <<28818, 25621, 25144, 197>>, e |-> -50] ->
         [s |-> 0, m |-> <<18838, 14271, 21116, 254>>, e |-> -53]
      [] x = [s |-> 1, m |-> <<27482, 25371, 23415, 197>>, e |-> -50] ->
         [s |-> 0, m |-> <<9883, 17109, 19683, 254>>, e |-> -53]
      [] x = [s |-> 1, m |-> <<445, 8702, 22899, 197>>, e |-> -50] ->
         [s |-> 0, m |-> <<31032, 2150, 19251, 254>>, e |-> -53]
      [] x = [s |-> 1, m |-> <<18251, 11699, 22776, 197>>, e |-> -50] ->
         [s |-> 0, m |-> <<13821, 28182, 19147, 254>>, e |-> -53]
      [] x = [s |-> 1, m |-> <<13009, 8970, 22749, 197>>, e |-> -50] ->
         [s |-> 0, m |-> <<996, 3374, 19125, 254>>, e |-> -53]
      [] x = [s |-> 1, m |-> <<18248, 13705, 22743, 197>>, e |-> -50] ->
         [s |-> 0, m |-> <<11520, 5966, 19120, 254>>, e |-> -53]
      [] x = [s |-> 1, m |-> <<2816, 5165, 22742, 197>>, e |-> -50] ->
         [s |-> 0, m |-> <<2724, 4018, 19119, 254>>, e |-> -53]
      [] x = [s |-> 1, m |-> <<29278, 29047, 22741, 197>>, e |-> -50] ->
         [s |-> 0, m |-> <<25571, 29318, 19118, 254>>, e |-> -53]
      [] x = [s |-> 1, m |-> <<3976, 27137, 22741, 197>>, e |-> -50] ->
         [s |-> 0, m |-> <<30305, 27712, 19118, 254>>, e |-> -53]
      [] x = [s |-> 1, m |-> <<7371, 26726, 22741, 197>>, e |-> -50] ->
         [s |-> 0, m |-> <<19603, 27367, 19118, 254>>, e |-> -53]
      [] x = [s |-> 1, m |-> <<28357, 26637, 22741, 197>>, e |-> -50] ->
         [s |-> 0, m |-> <<11104, 27293, 19118, 254>>, e |-> -53]
      [] x = [s |-> 1, m |-> <<28328, 26618, 22741, 197>>, e |-> -50] ->
         [s |-> 0, m |-> <<12127, 27277, 19118, 254>>, e |-> -53]
      [] x = [s |-> 1, m |-> <<25526, 26614, 22741, 197>>, e |-> -50] ->
         [s |-> 0, m |-> <<30688, 27273, 19118, 254>>, e |-> -53]
      [] x = [s |-> 1, m |-> <<29493, 26613, 22741, 197>>, e |-> -50] ->
         [s |-> 0, m |-> <<6483, 27273, 19118, 254>>, e |-> -53]
      [] x = [s |-> 1, m |-> <<23307, 26613, 22741, 197>>, e |-> -50] ->
         [s |-> 0, m |-> <<1285, 27273, 19118, 254>>, e |-> -53]
      [] x = [s |-> 1, m |-> <<21978, 26613, 22741, 197>>, e |-> -50] ->
         [s |-> 0, m |-> <<168, 27273, 19118, 254>>, e |-> -53]
      [] x = [s |-> 1, m |-> <<21694, 26613, 22741, 197>>, e |-> -50] ->
         [s |-> 0, m |-> <<32697, 27272, 19118, 254>>, e |-> -53]
      [] x = [s |-> 1, m |-> <<21641, 26613, 22741, 197>>, e |-> -50] ->
         [s |-> 0, m |-> <<32652, 27272, 19118, 254>>, e |-> -53]
      [] x = [s |-> 1, m |-> <<21610, 26613, 22741, 197>>, e |-> -50] ->
         [s |-> 0, m |-> <<32626, 27272, 19118, 254>>, e |-> -53]
      [] x = [s |-> 1, m |-> <<10566, 16423, 22524, 195>>, e |-> -50] ->
         [s |-> 0, m |-> <<25208, 8806, 13034, 252>>, e |-> -53]
      [] x = [s |-> 1, m |-> <<21830, 16525, 24756, 149>>, e |-> -50] ->
         [s |-> 1, m |-> <<4844, 29432, 7099, 133>>, e |-> -57]
      [] x = [s |-> 1, m |-> <<3632, 32460, 25096, 247>>, e |-> -51] ->
         [s |-> 1, m |-> <<13696, 31001, 26456, 190>>, e |-> -53]
      [] x = [s |-> 1, m |-> <<17801, 1148, 3678, 217>>, e |-> -51] ->
         [s |-> 1, m |-> <<15267, 12538, 32496, 247>>, e |-> -53]
      [] x = [s |-> 1, m |-> <<19254, 10239, 28760, 200>>, e |-> -51] ->
         [s |-> 1, m |-> <<14105, 7961, 32733, 255>>, e |-> -53]
      [] x = [s |-> 1, m |-> <<25962, 14927, 9047, 194>>, e |-> -51] ->
         [s |-> 1, m |-> <<229, 20346, 18427, 254>>, e |-> -53]
      [] x = [s |-> 1, m |-> <<1436, 16860, 28365, 190>>, e |-> -51] ->
         [s |-> 1, m |-> <<8043, 21618, 24837, 252>>, e |-> -53]
      [] x = [s |-> 1, m |-> <<10212, 28834, 26558, 190>>, e |-> -51] ->
         [s |-> 1, m |-> <<29878, 4618, 23688, 252>>, e |-> -53]
      [] x = [s |-> 1, m |-> <<7742, 25661, 26558, 190>>, e |-> -51] ->
         [s |-> 1, m |-> <<18400, 2594, 23688, 252>>, e |-> -53]
      [] x = [s |-> 1, m |-> <<20418, 18829, 16874, 184>>, e |-> -51] ->
         [s |-> 1, m |-> <<17549, 8525, 16097, 247>>, e |-> -53]
      [] x = [s |-> 1, m |-> <<13993, 22410, 26291, 182>>, e |-> -51] ->
         [s |-> 1, m |-> <<14046, 26245, 21343, 245>>, e |-> -53]
      [] x = [s |-> 1, m |-> <<13740, 15652, 3931, 180>>, e |-> -51] ->
         [s |-> 1, m |-> <<6461, 30635, 13653, 242>>, e |-> -53]
      [] x = [s |-> 1, m |-> <<26923, 24915, 32297, 179>>, e |-> -51] ->
         [s |-> 1, m |-> <<19052, 13776, 7977, 242>>, e |-> -53]
      [] x = [s |-> 1, m |-> <<3320, 1479, 32297, 179>>, e |-> -51] ->
         [s |-> 1, m |-> <<4419, 16227, 7976, 242>>, e |-> -53]
      [] x = [s |-> 1, m |-> <<3300, 1479, 32297, 179>>, e |-> -51] ->
         [s |-> 1, m |-> <<4393, 16227, 7976, 242>>, e |-> -53]
      [] x = [s |-> 1, m |-> <<3808, 31619, 6264, 175>>, e |-> -51] ->
         [s |-> 1, m |-> <<7055, 18051, 12051, 235>>, e |-> -53]
      [] x = [s |-> 1, m |-> <<19028, 9934, 14529, 168>>, e |-> -51] ->
         [s |-> 1, m |-> <<19825, 29174, 15220, 223>>, e |-> -53]
      [] x = [s |-> 1, m |-> <<11430, 3572, 29990, 164>>, e |-> -51] ->
         [s |-> 1, m |-> <<14638, 19687, 7967, 216>>, e |-> -53]
      [] x = [s |-> 1, m |-> <<29514, 8087, 29169, 164>>, e |-> -51] ->
         [s |-> 1, m |-> <<13225, 20440, 6209, 216>>, e |-> -53]
      [] x = [s |-> 1, m |-> <<28070, 20740, 31959, 163>>, e |-> -51] ->
         [s |-> 1, m |-> <<5468, 16972, 6803, 214>>, e |-> -53]
      [] x = [s |-> 1, m |-> <<23106, 4282, 19214, 163>>, e |-> -51] ->
         [s |-> 1, m |-> <<6298, 31369, 11524, 213>>, e |-> -53]
      [] x = [s |-> 1, m |-> <<7603, 6330, 19195, 163>>, e |-> -51] ->
         [s |-> 1, m |-> <<3502, 3041, 11483, 213>>, e |-> -53]
      [] x = [s |-> 1, m |-> <<20193, 21009, 4655, 162>>, e |-> -51] ->
         [s |-> 1, m |-> <<5477, 13660, 3435, 210>>, e |-> -53]
      [] x = [s |-> 1, m |-> <<10241, 10060, 14923, 161>>, e |-> -51] ->
         [s |-> 1, m |-> <<14248, 29357, 17155, 208>>, e |-> -53]
      [] x = [s |-> 1, m |-> <<14708, 25996, 14885, 161>>, e |-> -51] ->
         [s |-> 1, m |-> <<561, 27790, 17068, 208>>, e |-> -53]
      [] x = [s |-> 1, m |-> <<32671, 25992, 14885, 161>>, e |-> -51] ->
         [s |-> 1, m |-> <<240, 27782, 17068, 208>>, e |-> -53]
      [] x = [s |-> 1, m |-> <<3300, 902, 504, 160>>, e |-> -51] ->
         [s |-> 1, m |-> <<8665, 4396, 4246, 205>>, e |-> -53]
      [] x = [s |-> 1, m |-> <<25441, 4862, 31861, 158>>, e |-> -51] ->
         [s |-> 1, m |-> <<31843, 31981, 19866, 202>>, e |-> -53]
      [] x = [s |-> 1, m |-> <<28475, 30845, 31705, 158>>, e |-> -51] ->
         [s |-> 1, m |-> <<18091, 15438, 19487, 202>>, e |-> -53]
      [] x = [s |-> 1, m |-> <<29541, 28762, 1352, 134>>, e |-> -51] ->
         [s |-> 1, m |-> <<32764, 32767, 32767, 255>>, e |-> -54]
      [] x = [s |-> 1, m |-> <<26148, 16579, 23070, 255>>, e |-> -52] ->
         [s |-> 1, m |-> <<7844, 3585, 32447, 211>>, e |-> -54]
      [] x = [s |-> 1, m |-> <<7158, 465, 19769, 255>>, e |-> -52] ->
         [s |-> 1, m |-> <<27834, 4346, 20424, 211>>, e |-> -54]
      [] x = [s |-> 1, m |-> <<20487, 31451, 19768, 255>>, e |-> -52] ->
         [s |-> 1, m |-> <<22838, 30625, 20423, 211>>, e |-> -54]
      [] x = [s |-> 1, m |-> <<25696, 22822, 10271, 254>>, e |-> -52] ->
         [s |-> 1, m |-> <<4239, 12670, 29970, 206>>, e |-> -54]
      [] x = [s |-> 1, m |-> <<32301, 4805, 7039, 254>>, e |-> -52] ->
         [s |-> 1, m |-> <<13483, 3323, 18141, 206>>, e |-> -54]
      [] x = [s |-> 1, m |-> <<29903, 3088, 7039, 254>>, e |-> -52] ->
         [s |-> 1, m |-> <<27407, 29806, 18140, 206>>, e |-> -54]
      [] x = [s |-> 1, m |-> <<23781, 28435, 4431, 254>>, e |-> -52] ->
         [s |-> 1, m |-> <<29465, 695, 8597, 206>>, e |-> -54]
      [] x = [s |-> 1, m |-> <<21898, 8750, 1208, 254>>, e |-> -52] ->
         [s |-> 1, m |-> <<18351, 8271, 29561, 205>>, e |-> -54]
      [] x = [s |-> 1, m |-> <<30859, 7041, 1208, 254>>, e |-> -52] ->
         [s |-> 1, m |-> <<23164, 2013, 29561, 205>>, e |-> -54]
      [] x = [s |-> 1, m |-> <<1965, 31577, 28689, 253>>, e |-> -52] ->
         [s |-> 1, m |-> <<19177, 30132, 10195, 205>>, e |-> -54]
      [] x = [s |-> 1, m |-> <<29117, 14726, 25479, 253>>, e |-> -52] ->
         [s |-> 1, m |-> <<19506, 20121, 31197, 204>>, e |-> -54]
      [] x = [s |-> 1, m |-> <<11615, 13030, 25479, 253>>, e |-> -52] ->
         [s |-> 1, m |-> <<28788, 13902, 31197, 204>>, e |-> -54]
      [] x = [s |-> 1, m |-> <<5896, 16699, 21756, 245>>, e |-> -52] ->
         [s |-> 1, m |-> <<31672, 2923, 26856, 174>>, e |-> -54]
      [] x = [s |-> 1, m |-> <<31163, 27725, 21649, 245>>, e |-> -52] ->
         [s |-> 1, m |-> <<3942, 2441, 26455, 174>>, e |-> -54]
      [] x = [s |-> 1, m |-> <<18944, 27725, 21649, 245>>, e |-> -52] ->
         [s |-> 1, m |-> <<23539, 2439, 26455, 174>>, e |-> -54]
      [] x = [s |-> 1, m |-> <<5402, 3444, 6113, 245>>, e |-> -52] ->
         [s |-> 1, m |-> <<5812, 10408, 771, 173>>, e |-> -54]
      [] x = [s |-> 1, m |-> <<8914, 9413, 16059, 228>>, e |-> -52] ->
         [s |-> 1, m |-> <<10939, 3784, 24573, 217>>, e |-> -55]
      [] x = [s |-> 1, m |-> <<13787, 26848, 15990, 228>>, e |-> -52] ->
         [s |-> 1, m |-> <<18498, 29441, 24037, 217>>, e |-> -55]
      [] x = [s |-> 1, m |-> <<8547, 26848, 15990, 228>>, e |-> -52] ->
         [s |-> 1, m |-> <<10304, 29440, 24037, 217>>, e |-> -55]
      [] x = [s |-> 1, m |-> <<8728, 25609, 24526, 223>>, e |-> -52] ->
         [s |-> 1, m |-> <<10632, 23095, 17819, 180>>, e |-> -55]
      [] x = [s |-> 1, m |-> <<1429, 19000, 22637, 223>>, e |-> -52] ->
         [s |-> 1, m |-> <<26512, 8431, 2942, 180>>, e |-> -55]
      [] x = [s |-> 1, m |-> <<23259, 18246, 22637, 223>>, e |-> -52] ->
         [s |-> 1, m |-> <<2386, 2499, 2942, 180>>, e |-> -55]
      [] x = [s |-> 1, m |-> <<23258, 18246, 22637, 223>>, e |-> -52] ->
         [s |-> 1, m |-> <<2379, 2499, 2942, 180>>, e |-> -55]
      [] x = [s |-> 1, m |-> <<14063, 262, 24103, 219>>, e |-> -52] ->
         [s |-> 1, m |-> <<11736, 25431, 28171, 148>>, e |-> -55]
      [] x = [s |-> 1, m |-> <<3218, 28455, 22600, 219>>, e |-> -52] ->
         [s |-> 1, m |-> <<12253, 48, 16282, 148>>, e |-> -55]
      [] x = [s |-> 1, m |-> <<19221, 27975, 22600, 219>>, e |-> -52] ->
         [s |-> 1, m |-> <<27242, 29020, 16281, 148>>, e |-> -55]
      [] x = [s |-> 1, m |-> <<10022, 19095, 7238, 219>>, e |-> -52] ->
         [s |-> 1, m |-> <<8727, 15675, 25722, 144>>, e |-> -55]
      [] x = [s |-> 1, m |-> <<24796, 18547, 5786, 219>>, e |-> -52] ->
         [s |-> 1, m |-> <<17031, 24879, 14222, 144>>, e |-> -55]
      [] x = [s |-> 1, m |-> <<11589, 18099, 5786, 219>>, e |-> -52] ->
         [s |-> 1, m |-> <<5183, 21328, 14222, 144>>, e |-> -55]
      [] x = [s |-> 1, m |-> <<11588, 18099, 5786, 219>>, e |-> -52] ->
         [s |-> 1, m |-> <<5175, 21328, 14222, 144>>, e |-> -55]
      [] x = [s |-> 1, m |-> <<12281, 18589, 15426, 218>>, e |-> -52] ->
         [s |-> 1, m |-> <<3039, 16314, 27585, 138>>, e |-> -55]
      [] x = [s |-> 1, m |-> <<6153, 25609, 14047, 218>>, e |-> -52] ->
         [s |-> 1, m |-> <<7411, 27098, 16656, 138>>, e |-> -55]
      [] x = [s |-> 1, m |-> <<13586, 25204, 14047, 218>>, e |-> -52] ->
         [s |-> 1, m |-> <<26222, 23889, 16656, 138>>, e |-> -55]
      [] x = [s |-> 1, m |-> <<13585, 25204, 14047, 218>>, e |-> -52] ->
         [s |-> 1, m |-> <<26214, 23889, 16656, 138>>, e |-> -55]
      [] x = [s |-> 1, m |-> <<12666, 6854, 10328, 210>>, e |-> -52] ->
         [s |-> 1, m |-> <<9272, 27314, 30253, 147>>, e |-> -56]
      [] x = [s |-> 1, m |-> <<4615, 28780, 1392, 210>>, e |-> -52] ->
         [s |-> 1, m |-> <<25776, 1776, 18723, 143>>, e |-> -56]
      [] x = [s |-> 1, m |-> <<9696, 12080, 13431, 200>>, e |-> -52] ->
         [s |-> 0, m |-> <<5774, 1058, 30171, 166>>, e |-> -60]
      [] x = [s |-> 1, m |-> <<11702, 12064, 13431, 200>>, e |-> -52] ->
         [s |-> 0, m |-> <<14791, 5138, 30171, 166>>, e |-> -60]
      [] x = [s |-> 1, m |-> <<10450, 14365, 13141, 200>>, e |-> -52] ->
         [s |-> 0, m |-> <<16519, 6698, 6088, 169>>, e |-> -60]
      [] x = [s |-> 1, m |-> <<14862, 23796, 10099, 199>>, e |-> -52] ->
         [s |-> 0, m |-> <<29127, 14927, 15333, 224>>, e |-> -59]
      [] x = [s |-> 1, m |-> <<5566, 23734, 10099, 199>>, e |-> -52] ->
         [s |-> 0, m |-> <<14849, 22899, 15333, 224>>, e |-> -59]
      [] x = [s |-> 1, m |-> <<14254, 134, 9564, 199>>, e |-> -52] ->
         [s |-> 0, m |-> <<28688, 12754, 18363, 226>>, e |-> -59]
      [] x = [s |-> 1, m |-> <<3443, 24638, 5565, 192>>, e |-> -52] ->
         [s |-> 0, m |-> <<31467, 4561, 5204, 142>>, e |-> -56]
      [] x = [s |-> 1, m |-> <<16766, 3970, 5432, 192>>, e |-> -52] ->
         [s |-> 0, m |-> <<4301, 2337, 7337, 142>>, e |-> -56]
      [] x = [s |-> 1, m |-> <<23474, 31120, 4483, 192>>, e |-> -52] ->
         [s |-> 0, m |-> <<12566, 2274, 22471, 142>>, e |-> -56]
      [] x = [s |-> 1, m |-> <<7858, 11448, 4478, 192>>, e |-> -52] ->
         [s |-> 0, m |-> <<668, 14987, 22560, 142>>, e |-> -56]
      [] x = [s |-> 1, m |-> <<27515, 20703, 4477, 192>>, e |-> -52] ->
         [s |-> 0, m |-> <<7781, 29823, 22571, 142>>, e |-> -56]
      [] x = [s |-> 1, m |-> <<26001, 19211, 4476, 192>>, e |-> -52] ->
         [s |-> 0, m |-> <<29656, 19595, 22588, 142>>, e |-> -56]
      [] x = [s |-> 1, m |-> <<3431, 22637, 13313, 191>>, e |-> -52] ->
         [s |-> 0, m |-> <<4553, 9297, 11258, 154>>, e |-> -56]
      [] x = [s |-> 1, m |-> <<12156, 23036, 4166, 190>>, e |-> -52] ->
         [s |-> 0, m |-> <<5536, 7520, 24367, 174>>, e |-> -56]
      [] x = [s |-> 1, m |-> <<22242, 31603, 4124, 190>>, e |-> -52] ->
         [s |-> 0, m |-> <<5301, 20008, 25032, 174>>, e |-> -56]
      [] x = [s |-> 1, m |-> <<16177, 26551, 3828, 190>>, e |-> -52] ->
         [s |-> 0, m |-> <<31653, 25532, 29753, 174>>, e |-> -56]
      [] x = [s |-> 1, m |-> <<24877, 2000, 3827, 190>>, e |-> -52] ->
         [s |-> 0, m |-> <<31646, 21777, 29781, 174>>, e |-> -56]
      [] x = [s |-> 1, m |-> <<27486, 27424, 3826, 190>>, e |-> -52] ->
         [s |-> 0, m |-> <<12348, 7779, 29785, 174>>, e |-> -56]
      [] x = [s |-> 1, m |-> <<31865, 16723, 3826, 190>>, e |-> -52] ->
         [s |-> 0, m |-> <<22298, 14527, 29790, 174>>, e |-> -56]
      [] x = [s |-> 1, m |-> <<18695, 12770, 6006, 188>>, e |-> -52] ->
         [s |-> 0, m |-> <<25483, 12918, 23284, 205>>, e |-> -56]
      [] x = [s |-> 1, m |-> <<2401, 6895, 3589, 187>>, e |-> -52] ->
         [s |-> 0, m |-> <<6560, 13639, 26100, 222>>, e |-> -56]
      [] x = [s |-> 1, m |-> <<7657, 29637, 11232, 183>>, e |-> -52] ->
         [s |-> 0, m |-> <<20321, 7304, 9854, 141>>, e |-> -55]
      [] x = [s |-> 1, m |-> <<9631, 22428, 214, 177>>, e |-> -52] ->
         [s |-> 0, m |-> <<293, 25614, 10230, 191>>, e |-> -55]
      [] x = [s |-> 1, m |-> <<367, 5316, 14694, 173>>, e |-> -52] ->
         [s |-> 0, m |-> <<8120, 29555, 6503, 219>>, e |-> -55]
      [] x = [s |-> 1, m |-> <<9170, 21188, 8707, 164>>, e |-> -52] ->
         [s |-> 0, m |-> <<30319, 6247, 5437, 145>>, e |-> -54]
      [] x = [s |-> 1, m |-> <<31808, 13875, 6804, 164>>, e |-> -52] ->
         [s |-> 0, m |-> <<20234, 6295, 12737, 145>>, e |-> -54]
      [] x = [s |-> 1, m |-> <<19859, 5898, 26068, 163>>, e |-> -52] ->
         [s |-> 0, m |-> <<17684, 26169, 31737, 146>>, e |-> -54]
      [] x = [s |-> 1, m |-> <<8182, 13679, 25988, 163>>, e |-> -52] ->
         [s |-> 0, m |-> <<21292, 13799, 32043, 146>>, e |-> -54]
      [] x = [s |-> 1, m |-> <<2645, 6486, 25978, 163>>, e |-> -52] ->
         [s |-> 0, m |-> <<20144, 18961, 32082, 146>>, e |-> -54]
      [] x = [s |-> 1, m |-> <<18462, 10060, 25963, 163>>, e |-> -52] ->
         [s |-> 0, m |-> <<9182, 20816, 32139, 146>>, e |-> -54]
      [] x = [s |-> 1, m |-> <<4925, 9275, 2857, 161>>, e |-> -52] ->
         [s |-> 0, m |-> <<27698, 26221, 10234, 157>>, e |-> -54]
      [] x = [s |-> 1, m |-> <<26959, 11207, 13704, 157>>, e |-> -52] ->
         [s |-> 0, m |-> <<3247, 20287, 6940, 171>>, e |-> -54]
      [] x = [s |-> 1, m |-> <<3628, 17985, 19797, 139>>, e |-> -52] ->
         [s |-> 0, m |-> <<1209, 9240, 16185, 236>>, e |-> -54]
      [] x = [s |-> 1, m |-> <<31571, 17984, 19797, 139>>, e |-> -52] ->
         [s |-> 0, m |-> <<18326, 9240, 16185, 236>>, e |-> -54]
      [] x = [s |-> 1, m |-> <<32206, 13901, 19718, 139>>, e |-> -52] ->
         [s |-> 0, m |-> <<30731, 32532, 16465, 236>>, e |-> -54]
      [] x = [s |-> 1, m |-> <<32041, 29210, 10288, 138>>, e |-> -52] ->
         [s |-> 0, m |-> <<9322, 31886, 1934, 241>>, e |-> -54]
      [] x = [s |-> 1, m |-> <<8595, 14338, 2722, 255>>, e |-> -53] ->
         [s |-> 0, m |-> <<32555, 19274, 2885, 139>>, e |-> -53]
      [] x = [s |-> 1, m |-> <<7905, 11088, 16960, 248>>, e |-> -53] ->
         [s |-> 0, m |-> <<24849, 31795, 18141, 144>>, e |-> -53]
      [] x = [s |-> 1, m |-> <<25796, 8973, 19858, 238>>, e |-> -53] ->
         [s |-> 0, m |-> <<28649, 31437, 20430, 152>>, e |-> -53]
      [] x = [s |-> 1, m |-> <<15315, 24413, 10229, 232>>, e |-> -53] ->
         [s |-> 0, m |-> <<16401, 7218, 20639, 157>>, e |-> -53]
      [] x = [s |-> 1, m |-> <<22928, 17481, 4118, 212>>, e |-> -53] ->
         [s |-> 0, m |-> <<19849, 7759, 966, 173>>, e |-> -53]
      [] x = [s |-> 1, m |-> <<7596, 17480, 4118, 212>>, e |-> -53] ->
         [s |-> 0, m |-> <<22530, 7760, 966, 173>>, e |-> -53]
      [] x = [s |-> 1, m |-> <<2441, 4207, 3782, 212>>, e |-> -53] ->
         [s |-> 0, m |-> <<21805, 5297, 1214, 173>>, e |-> -53]
      [] x = [s |-> 1, m |-> <<22550, 11784, 22083, 210>>, e |-> -53] ->
         [s |-> 0, m |-> <<9617, 22087, 3166, 174>>, e |-> -53]
      [] x = [s |-> 1, m |-> <<7386, 11783, 22083, 210>>, e |-> -53] ->
         [s |-> 0, m |-> <<11991, 22088, 3166, 174>>, e |-> -53]
      [] x = [s |-> 1, m |-> <<21496, 21774, 21746, 210>>, e |-> -53] ->
         [s |-> 0, m |-> <<8744, 16977, 3413, 174>>, e |-> -53]
      [] x = [s |-> 1, m |-> <<29089, 6863, 15988, 210>>, e |-> -53] ->
         [s |-> 0, m |-> <<29973, 27466, 7633, 174>>, e |-> -53]
      [] x = [s |-> 1, m |-> <<13948, 6862, 15988, 210>>, e |-> -53] ->
         [s |-> 0, m |-> <<32306, 27467, 7633, 174>>, e |-> -53]
      [] x = [s |-> 1, m |-> <<6508, 15738, 15651, 210>>, e |-> -53] ->
         [s |-> 0, m |-> <<9911, 17720, 7880, 174>>, e |-> -53]
      [] x = [s |-> 1, m |-> <<3792, 28860, 7106, 210>>, e |-> -53] ->
         [s |-> 0, m |-> <<17966, 19964, 14137, 174>>, e |-> -53]
      [] x = [s |-> 1, m |-> <<21452, 28858, 7106, 210>>, e |-> -53] ->
         [s |-> 0, m |-> <<20240, 19965, 14137, 174>>, e |-> -53]
      [] x = [s |-> 1, m |-> <<8929, 3382, 6770, 210>>, e |-> -53] ->
         [s |-> 0, m |-> <<30266, 3421, 14384, 174>>, e |-> -53]
      [] x = [s |-> 1, m |-> <<6845, 31764, 25223, 205>>, e |-> -53] ->
         [s |-> 0, m |-> <<152, 24996, 21625, 177>>, e |-> -53]
      [] x = [s |-> 1, m |-> <<4453, 22558, 27761, 201>>, e |-> -53] ->
         [s |-> 0, m |-> <<19720, 6152, 15178, 180>>, e |-> -53]
      [] x = [s |-> 1, m |-> <<4621, 8679, 27761, 201>>, e |-> -53] ->
         [s |-> 0, m |-> <<19377, 15996, 15178, 180>>, e |-> -53]
      [] x = [s |-> 1, m |-> <<4620, 8679, 27761, 201>>, e |-> -53] ->
         [s |-> 0, m |-> <<19378, 15996, 15178, 180>>, e |-> -53]
      [] x = [s |-> 1, m |-> <<24801, 18878, 14585, 201>>, e |-> -53] ->
         [s |-> 0, m |-> <<5729, 11264, 24516, 180>>, e |-> -53]
      [] x = [s |-> 1, m |-> <<16767, 17768, 18701, 132>>, e |-> -53] ->
         [s |-> 0, m |-> <<14661, 10005, 14225, 222>>, e |-> -53]
      [] x = [s |-> 1, m |-> <<28320, 21187, 12366, 227>>, e |-> -54] ->
         [s |-> 0, m |-> <<11601, 16378, 5498, 231>>, e |-> -53]
      [] x = [s |-> 1, m |-> <<1630, 11457, 30449, 185>>, e |-> -54] ->
         [s |-> 0, m |-> <<15371, 27166, 9992, 239>>, e |-> -53]
      [] x = [s |-> 1, m |-> <<208, 23814, 22268, 185>>, e |-> -54] ->
         [s |-> 0, m |-> <<14442, 27293, 11444, 239>>, e |-> -53]
      [] x = [s |-> 1, m |-> <<23707, 14599, 29759, 183>>, e |-> -54] ->
         [s |-> 0, m |-> <<2082, 29234, 21693, 239>>, e |-> -53]
      [] x = [s |-> 1, m |-> <<11213, 19733, 29416, 183>>, e |-> -54] ->
         [s |-> 0, m |-> <<26976, 4878, 21754, 239>>, e |-> -53]
      [] x = [s |-> 1, m |-> <<6844, 22140, 29372, 183>>, e |-> -54] ->
         [s |-> 0, m |-> <<15703, 28475, 21761, 239>>, e |-> -53]
      [] x = [s |-> 1, m |-> <<9711, 21956, 29308, 183>>, e |-> -54] ->
         [s |-> 0, m |-> <<5088, 3864, 21773, 239>>, e |-> -53]
      [] x = [s |-> 1, m |-> <<1811, 16915, 20210, 217>>, e |-> -55] ->
         [s |-> 0, m |-> <<24986, 20156, 7891, 250>>, e |-> -53]
      [] x = [s |-> 1, m |-> <<11930, 32387, 5803, 170>>, e |-> -55] ->
         [s |-> 0, m |-> <<9686, 11644, 15497, 252>>, e |-> -53]
      [] x = [s |-> 1, m |-> <<5444, 32384, 5803, 170>>, e |-> -55] ->
         [s |-> 0, m |-> <<14020, 11644, 15497, 252>>, e |-> -53]
      [] x = [s |-> 1, m |-> <<29148, 28672, 4276, 170>>, e |-> -55] ->
         [s |-> 0, m |-> <<25491, 16460, 15560, 252>>, e |-> -53]
      [] x = [s |-> 1, m |-> <<14623, 10255, 26318, 179>>, e |-> -57] ->
         [s |-> 0, m |-> <<1516, 88, 24687, 255>>, e |-> -53]
      [] x = [s |-> 1, m |-> <<6571, 10255, 26318, 179>>, e |-> -57] ->
         [s |-> 0, m |-> <<1538, 88, 24687, 255>>, e |-> -53]
      [] x = [s |-> 1, m |-> <<5697, 928, 24675, 179>>, e |-> -57] ->
         [s |-> 0, m |-> <<30053, 16681, 24691, 255>>, e |-> -53]
      [] x = [s |-> 1, m |-> <<8674, 9516, 14341, 193>>, e |-> -58] ->
         [s |-> 0, m |-> <<22717, 15584, 30429, 255>>, e |-> -53]
      [] x = [s |-> 1, m |-> <<386, 7613, 24580, 154>>, e |-> -60] ->
         [s |-> 0, m |-> <<19014, 14904, 32674, 255>>, e |-> -53]
      [] x = [s |-> 1, m |-> <<1854, 20852, 19945, 240>>, e |-> -67] ->
         [s |-> 0, m |-> <<23413, 32315, 32767, 255>>, e |-> -53]
      [] x = [s |-> 1, m |-> <<9590, 22865, 10592, 240>>, e |-> -67] ->
         [s |-> 0, m |-> <<25787, 32316, 32767, 255>>, e |-> -53]
      [] x = [s |-> 1, m |-> <<25021, 11864, 6341, 240>>, e |-> -67] ->
         [s |-> 0, m |-> <<8978, 32317, 32767, 255>>, e |-> -53]
      [] x = [s |-> 1, m |-> <<13042, 11048, 30653, 239>>, e |-> -67] ->
         [s |-> 0, m |-> <<7929, 32318, 32767, 255>>, e |-> -53]
      [] x = [s |-> 1, m |-> <<21701, 12844, 30579, 239>>, e |-> -67] ->
         [s |-> 0, m |-> <<8206, 32318, 32767, 255>>, e |-> -53]
      [] x = [s |-> 1, m |-> <<48, 18758, 30537, 239>>, e |-> -67] ->
         [s |-> 0, m |-> <<8363, 32318, 32767, 255>>, e |-> -53]
      [] x = [s |-> 1, m |-> <<25060, 26891, 24654, 239>>, e |-> -67] ->
         [s |-> 0, m |-> <<30409, 32318, 32767, 255>>, e |-> -53]
      [] x = [s |-> 1, m |-> <<21330, 12943, 11508, 238>>, e |-> -67] ->
         [s |-> 0, m |-> <<5300, 32324, 32767, 255>>, e |-> -53]
      [] x = [s |-> 1, m |-> <<31008, 19216, 28971, 237>>, e |-> -67] ->
         [s |-> 0, m |-> <<29474, 32325, 32767, 255>>, e |-> -53]
      [] x = [s |-> 1, m |-> <<24833, 28459, 17198, 220>>, e |-> -67] ->
         [s |-> 0, m |-> <<2248, 32388, 32767, 255>>, e |-> -53]
      [] x = [s |-> 1, m |-> <<16418, 13857, 14982, 143>>, e |-> -74] ->
         [s |-> 0, m |-> <<32446, 32767, 32767, 255>>, e |-> -53]
      [] x = Zero ->
         [s |-> 0, m |-> <<0, 0, 0, 128>>, e |-> -52]
      [] x = [s |-> 0, m |-> <<23259, 21254, 8304, 129>>, e |-> -69] ->
         [s |-> 0, m |-> <<27609, 32759, 32767, 255>>, e |-> -53]
      [] x = [s |-> 0, m |-> <<24290, 32422, 1501, 183>>, e |-> -67] ->
         [s |-> 0, m |-> <<7737, 32506, 32767, 255>>, e |-> -53]
      [] x = [s |-> 0, m |-> <<15395, 8163, 1356, 148>>, e |-> -62] ->
         [s |-> 0, m |-> <<32596, 21277, 32762, 255>>, e |-> -53]
      [] x = [s |-> 0, m |-> <<2111, 11998, 4679, 156>>, e |-> -61] ->
         [s |-> 0, m |-> <<31854, 6253, 32744, 255>>, e |-> -53]
      [] x = [s |-> 0, m |-> <<20753, 23426, 8159, 225>>, e |-> -61] ->
         [s |-> 0, m |-> <<26274, 14813, 32718, 255>>, e |-> -53]
      [] x = [s |-> 0, m |-> <<1304, 6132, 32457, 139>>, e |-> -60] ->
         [s |-> 0, m |-> <<24750, 14679, 32691, 255>>, e |-> -53]
      [] x = [s |-> 0, m |-> <<16703, 26246, 997, 161>>, e |-> -60] ->
         [s |-> 0, m |-> <<16860, 23199, 32666, 255>>, e |-> -53]
      [] x = [s |-> 0, m |-> <<5899, 4482, 27810, 236>>, e |-> -60] ->
         [s |-> 0, m |-> <<4098, 28536, 32548, 255>>, e |-> -53]
      [] x = [s |-> 0, m |-> <<25655, 2948, 20461, 138>>, e |-> -59] ->
         [s |-> 0, m |-> <<20131, 24260, 32467, 255>>, e |-> -53]
      [] x = [s |-> 0, m |-> <<0, 23369, 12054, 140>>, e |-> -59] ->
         [s |-> 0, m |-> <<1394, 4597, 32460, 255>>, e |-> -53]
      [] x = [s |-> 0, m |-> <<20864, 30267, 31074, 140>>, e |-> -59] ->
         [s |-> 0, m |-> <<15807, 19297, 32457, 255>>, e |-> -53]
      [] x = [s |-> 0, m |-> <<27059, 22431, 21908, 150>>, e |-> -59] ->
         [s |-> 0, m |-> <<2429, 9796, 32413, 255>>, e |-> -53]
      [] x = [s |-> 0, m |-> <<8076, 26274, 9297, 161>>, e |-> -59] ->
         [s |-> 0, m |-> <<24978, 18310, 32361, 255>>, e |-> -53]
      [] x = [s |-> 0, m |-> <<20467, 15916, 8374, 187>>, e |-> -59] ->
         [s |-> 0, m |-> <<19170, 3959, 32220, 255>>, e |-> -53]
      [] x = [s |-> 0, m |-> <<6448, 6876, 25201, 210>>, e |-> -59] ->
         [s |-> 0, m |-> <<29210, 29187, 32073, 255>>, e |-> -53]
      [] x = [s |-> 0, m |-> <<15491, 28805, 29743, 220>>, e |-> -59] ->
         [s |-> 0, m |-> <<16223, 16651, 32005, 255>>, e |-> -53]
      [] x = [s |-> 0, m |-> <<32210, 17640, 29748, 220>>, e |-> -59] ->
         [s |-> 0, m |-> <<10856, 16619, 32005, 255>>, e |-> -53]
      [] x = [s |-> 0, m |-> <<32253, 24116, 29751, 220>>, e |-> -59] ->
         [s |-> 0, m |-> <<8438, 16597, 32005, 255>>, e |-> -53]
      [] x = [s |-> 0, m |-> <<27674, 22716, 29776, 220>>, e |-> -59] ->
         [s |-> 0, m |-> <<31886, 16424, 32005, 255>>, e |-> -53]
      [] x = [s |-> 0, m |-> <<16966, 3208, 1234, 221>>, e |-> -59] ->
         [s |-> 0, m |-> <<22848, 20015, 32004, 255>>, e |-> -53]
      [] x = [s |-> 0, m |-> <<27849, 19861, 1829, 221>>, e |-> -59] ->
         [s |-> 0, m |-> <<7322, 15902, 32004, 255>>, e |-> -53]
      [] x = [s |-> 0, m |-> <<31986, 13984, 23886, 239>>, e |-> -59] ->
         [s |-> 0, m |-> <<4813, 1563, 31870, 255>>, e |-> -53]
      [] x = [s |-> 0, m |-> <<11258, 28640, 9844, 138>>, e |-> -58] ->
         [s |-> 0, m |-> <<14311, 19337, 31572, 255>>, e |-> -53]
      [] x = [s |-> 0, m |-> <<14659, 18016, 2816, 147>>, e |-> -58] ->
         [s |-> 0, m |-> <<1498, 29293, 31415, 255>>, e |-> -53]
      [] x = [s |-> 0, m |-> <<12584, 23413, 22857, 151>>, e |-> -58] ->
         [s |-> 0, m |-> <<26843, 25614, 31329, 255>>, e |-> -53]
      [] x = [s |-> 0, m |-> <<9720, 370, 25371, 152>>, e |-> -58] ->
         [s |-> 0, m |-> <<13552, 9628, 31309, 255>>, e |-> -53]
      [] x = [s |-> 0, m |-> <<30928, 24573, 24181, 160>>, e |-> -58] ->
         [s |-> 0, m |-> <<8935, 8467, 31153, 255>>, e |-> -53]
      [] x = [s |-> 0, m |-> <<28146, 21553, 9928, 179>>, e |-> -58] ->
         [s |-> 0, m |-> <<25696, 23998, 30758, 255>>, e |-> -53]
      [] x = [s |-> 0, m |-> <<24064, 874, 2178, 185>>, e |-> -58] ->
         [s |-> 0, m |-> <<7077, 16095, 30627, 255>>, e |-> -53]
      [] x = [s |-> 0, m |-> <<27008, 26223, 4820, 185>>, e |-> -58] ->
         [s |-> 0, m |-> <<39, 20487, 30625, 255>>, e |-> -53]
      [] x = [s |-> 0, m |-> <<23761, 26155, 18220, 185>>, e |-> -58] ->
         [s |-> 0, m |-> <<20647, 4961, 30616, 255>>, e |-> -53]
      [] x = [s |-> 0, m |-> <<6063, 31822, 18224, 185>>, e |-> -58] ->
         [s |-> 0, m |-> <<27832, 4864, 30616, 255>>, e |-> -53]
      [] x = [s |-> 0, m |-> <<23399, 27360, 18227, 185>>, e |-> -58] ->
         [s |-> 0, m |-> <<14073, 4798, 30616, 255>>, e |-> -53]
      [] x = [s |-> 0, m |-> <<14538, 6130, 18250, 185>>, e |-> -58] ->
         [s |-> 0, m |-> <<859, 4280, 30616, 255>>, e |-> -53]
      [] x = [s |-> 0, m |-> <<30707, 17117, 22034, 185>>, e |-> -58] ->
         [s |-> 0, m |-> <<259, 14788, 30613, 255>>, e |-> -53]
      [] x = [s |-> 0, m |-> <<17695, 28456, 22567, 185>>, e |-> -58] ->
         [s |-> 0, m |-> <<2227, 2410, 30613, 255>>, e |-> -53]
      [] x = [s |-> 0, m |-> <<30256, 28701, 27717, 201>>, e |-> -58] ->
         [s |-> 0, m |-> <<7353, 25192, 30221, 255>>, e |-> -53]
      [] x = [s |-> 0, m |-> <<13227, 1021, 5951, 226>>, e |-> -58] ->
         [s |-> 0, m |-> <<13670, 26887, 29570, 255>>, e |-> -53]
      [] x = [s |-> 0, m |-> <<7952, 21427, 3991, 233>>, e |-> -58] ->
         [s |-> 0, m |-> <<17496, 20247, 29371, 255>>, e |-> -53]
      [] x = [s |-> 0, m |-> <<8453, 11955, 18486, 241>>, e |-> -58] ->
         [s |-> 0, m |-> <<26196, 6113, 29121, 255>>, e |-> -53]
      [] x = [s |-> 0, m |-> <<13622, 29930, 22778, 244>>, e |-> -58] ->
         [s |-> 0, m |-> <<18761, 1498, 29026, 255>>, e |-> -53]
      [] x = [s |-> 0, m |-> <<27671, 28800, 9911, 249>>, e |-> -58] ->
         [s |-> 0, m |-> <<25581, 26760, 28883, 255>>, e |-> -53]
      [] x = [s |-> 0, m |-> <<22963, 22407, 2513, 253>>, e |-> -58] ->
         [s |-> 0, m |-> <<19817, 10796, 28765, 255>>, e |-> -53]
      [] x = [s |-> 0, m |-> <<14458, 23127, 2550, 253>>, e |-> -58] ->
         [s |-> 0, m |-> <<20113, 9625, 28765, 255>>, e |-> -53]
      [] x = [s |-> 0, m |-> <<11940, 12899, 2813, 253>>, e |-> -58] ->
         [s |-> 0, m |-> <<24391, 1316, 28765, 255>>, e |-> -53]
      [] x = [s |-> 0, m |-> <<29780, 30972, 2814, 253>>, e |-> -58] ->
         [s |-> 0, m |-> <<21869, 1267, 28765, 255>>, e |-> -53]
      [] x = [s |-> 0, m |-> <<30934, 4718, 2815, 253>>, e |-> -58] ->
         [s |-> 0, m |-> <<12433, 1261, 28765, 255>>, e |-> -53]
      [] x = [s |-> 0, m |-> <<19012, 14210, 2815, 253>>, e |-> -58] ->
         [s |-> 0, m |-> <<7118, 1252, 28765, 255>>, e |-> -53]
      [] x = [s |-> 0, m |-> <<9522, 19945, 2797, 132>>, e |-> -57] ->
         [s |-> 0, m |-> <<662, 24291, 28406, 255>>, e |-> -53]
      [] x = [s |-> 0, m |-> <<26793, 28380, 2802, 132>>, e |-> -57] ->
         [s |-> 0, m |-> <<28352, 23943, 28406, 255>>, e |-> -53]
      [] x = [s |-> 0, m |-> <<5122, 15540, 2806, 132>>, e |-> -57] ->
         [s |-> 0, m |-> <<20161, 23705, 28406, 255>>, e |-> -53]
      [] x = [s |-> 0, m |-> <<21985, 20822, 2834, 132>>, e |-> -57] ->
         [s |-> 0, m |-> <<2810, 21846, 28406, 255>>, e |-> -53]
      [] x = [s |-> 0, m |-> <<6163, 15882, 7602, 132>>, e |-> -57] ->
         [s |-> 0, m |-> <<1337, 1755, 28397, 255>>, e |-> -53]
      [] x = [s |-> 0, m |-> <<24422, 14497, 8274, 132>>, e |-> -57] ->
         [s |-> 0, m |-> <<5000, 22868, 28395, 255>>, e |-> -53]
      [] x = [s |-> 0, m |-> <<27479, 17833, 8287, 137>>, e |-> -57] ->
         [s |-> 0, m |-> <<30460, 27850, 28058, 255>>, e |-> -53]
      [] x = [s |-> 0, m |-> <<7625, 31530, 2083, 138>>, e |-> -57] ->
         [s |-> 0, m |-> <<12301, 2029, 28003, 255>>, e |-> -53]
      [] x = [s |-> 0, m |-> <<29294, 16665, 5487, 138>>, e |-> -57] ->
         [s |-> 0, m |-> <<19836, 29176, 27995, 255>>, e |-> -53]
      [] x = [s |-> 0, m |-> <<21399, 27346, 10446, 138>>, e |-> -57] ->
         [s |-> 0, m |-> <<9487, 14125, 27985, 255>>, e |-> -53]
      [] x = [s |-> 0, m |-> <<20608, 25516, 17798, 151>>, e |-> -57] ->
         [s |-> 0, m |-> <<16093, 10530, 27027, 255>>, e |-> -53]
      [] x = [s |-> 0, m |-> <<16664, 31772, 21299, 162>>, e |-> -57] ->
         [s |-> 0, m |-> <<10515, 3653, 26155, 255>>, e |-> -53]
      [] x = [s |-> 0, m |-> <<32269, 736, 9785, 178>>, e |-> -57] ->
         [s |-> 0, m |-> <<17137, 21490, 24821, 255>>, e |-> -53]
      [] x = [s |-> 0, m |-> <<20766, 17106, 10158, 178>>, e |-> -57] ->
         [s |-> 0, m |-> <<24474, 20970, 24820, 255>>, e |-> -53]
      [] x = [s |-> 0, m |-> <<7923, 22059, 12808, 178>>, e |-> -57] ->
         [s |-> 0, m |-> <<19376, 14093, 24813, 255>>, e |-> -53]
      [] x = [s |-> 0, m |-> <<30444, 10690, 12824, 178>>, e |-> -57] ->
         [s |-> 0, m |-> <<27805, 12697, 24813, 255>>, e |-> -53]
      [] x = [s |-> 0, m |-> <<12585, 10872, 12826, 178>>, e |-> -57] ->
         [s |-> 0, m |-> <<647, 12519, 24813, 255>>, e |-> -53]
      [] x = [s |-> 0, m |-> <<21150, 8325, 12829, 178>>, e |-> -57] ->
         [s |-> 0, m |-> <<14656, 12258, 24813, 255>>, e |-> -53]
      [] x = [s |-> 0, m |-> <<12878, 8490, 21077, 178>>, e |-> -57] ->
         [s |-> 0, m |-> <<13255, 29949, 24790, 255>>, e |-> -53]
      [] x = [s |-> 0, m |-> <<31253, 7518, 16031, 182>>, e |-> -57] ->
         [s |-> 0, m |-> <<16882, 26113, 24443, 255>>, e |-> -53]
      [] x = [s |-> 0, m |-> <<10543, 3345, 18982, 183>>, e |-> -57] ->
         [s |-> 0, m |-> <<19649, 2344, 24344, 255>>, e |-> -53]
      [] x = [s |-> 0, m |-> <<7935, 5207, 8210, 193>>, e |-> -57] ->
         [s |-> 0, m |-> <<31341, 9423, 23433, 255>>, e |-> -53]
      [] x = [s |-> 0, m |-> <<22146, 26792, 19553, 213>>, e |-> -57] ->
         [s |-> 0, m |-> <<15654, 22714, 21364, 255>>, e |-> -53]
      [] x = [s |-> 0, m |-> <<30586, 20814, 23649, 213>>, e |-> -57] ->
         [s |-> 0, m |-> <<8521, 11342, 21351, 255>>, e |-> -53]
      [] x = [s |-> 0, m |-> <<27606, 26359, 15271, 214>>, e |-> -57] ->
         [s |-> 0, m |-> <<26141, 23077, 21271, 255>>, e |-> -53]
      [] x = [s |-> 0, m |-> <<20608, 4680, 28305, 218>>, e |-> -57] ->
         [s |-> 0, m |-> <<3955, 16639, 20795, 255>>, e |-> -53]
      [] x = [s |-> 0, m |-> <<19440, 14119, 3286, 223>>, e |-> -57] ->
         [s |-> 0, m |-> <<9119, 20997, 20327, 255>>, e |-> -53]
      [] x = [s |-> 0, m |-> <<16800, 17875, 23431, 229>>, e |-> -57] ->
         [s |-> 0, m |-> <<24210, 6671, 19579, 255>>, e |-> -53]
      [] x = [s |-> 0, m |-> <<6720, 26340, 22091, 232>>, e |-> -57] ->
         [s |-> 0, m |-> <<26265, 10470, 19237, 255>>, e |-> -53]
      [] x = [s |-> 0, m |-> <<13283, 21852, 20229, 233>>, e |-> -57] ->
         [s |-> 0, m |-> <<8795, 14110, 19127, 255>>, e |-> -53]
      [] x = [s |-> 0, m |-> <<8933, 18673, 21846, 242>>, e |-> -57] ->
         [s |-> 0, m |-> <<2246, 17144, 18050, 255>>, e |-> -53]
      [] x = [s |-> 0, m |-> <<14769, 2619, 21847, 242>>, e |-> -57] ->
         [s |-> 0, m |-> <<7061, 17082, 18050, 255>>, e |-> -53]
      [] x = [s |-> 0, m |-> <<8506, 14090, 21847, 242>>, e |-> -57] ->
         [s |-> 0, m |-> <<25107, 17039, 18050, 255>>, e |-> -53]
      [] x = [s |-> 0, m |-> <<1367, 5315, 21850, 242>>, e |-> -57] ->
         [s |-> 0, m |-> <<14839, 16708, 18050, 255>>, e |-> -53]
      [] x = [s |-> 0, m |-> <<7789, 24219, 22312, 242>>, e |-> -57] ->
         [s |-> 0, m |-> <<20255, 26149, 18048, 255>>, e |-> -53]
      [] x = [s |-> 0, m |-> <<14930, 30555, 22377, 242>>, e |-> -57] ->
         [s |-> 0, m |-> <<20308, 18243, 18048, 255>>, e |-> -53]
      [] x = [s |-> 0, m |-> <<9933, 323, 23665, 242>>, e |-> -57] ->
         [s |-> 0, m |-> <<16758, 25986, 18043, 255>>, e |-> -53]
      [] x = [s |-> 0, m |-> <<26064, 10845, 5074, 151>>, e |-> -56] ->
         [s |-> 0, m |-> <<10317, 18978, 9930, 255>>, e |-> -53]
      [] x = [s |-> 0, m |-> <<2708, 12689, 6341, 158>>, e |-> -56] ->
         [s |-> 0, m |-> <<26744, 8166, 7755, 255>>, e |-> -53]
      [] x = [s |-> 0, m |-> <<6464, 26172, 24494, 169>>, e |-> -56] ->
         [s |-> 0, m |-> <<9785, 8873, 3970, 255>>, e |-> -53]
      [] x = [s |-> 0, m |-> <<5189, 18138, 25882, 170>>, e |-> -56] ->
         [s |-> 0, m |-> <<15940, 23596, 3615, 255>>, e |-> -53]
      [] x = [s |-> 0, m |-> <<25335, 30182, 5699, 174>>, e |-> -56] ->
         [s |-> 0, m |-> <<26673, 23473, 2449, 255>>, e |-> -53]
      [] x = [s |-> 0, m |-> <<2810, 12067, 10635, 174>>, e |-> -56] ->
         [s |-> 0, m |-> <<8474, 9488, 2397, 255>>, e |-> -53]
      [] x = [s |-> 0, m |-> <<16867, 20278, 13117, 174>>, e |-> -56] ->
         [s |-> 0, m |-> <<2277, 29647, 2370, 255>>, e |-> -53]
      [] x = [s |-> 0, m |-> <<31984, 27516, 28148, 175>>, e |-> -56] ->
         [s |-> 0, m |-> <<31970, 19599, 1860, 255>>, e |-> -53]
      [] x = [s |-> 0, m |-> <<17543, 5582, 23649, 178>>, e |-> -56] ->
         [s |-> 0, m |-> <<5538, 26672, 846, 255>>, e |-> -53]
      [] x = [s |-> 0, m |-> <<32751, 20294, 31059, 182>>, e |-> -56] ->
         [s |-> 0, m |-> <<11269, 10816, 32088, 254>>, e |-> -53]
      [] x = [s |-> 0, m |-> <<28926, 23159, 25086, 183>>, e |-> -56] ->
         [s |-> 0, m |-> <<5550, 28219, 31788, 254>>, e |-> -53]
      [] x = [s |-> 0, m |-> <<3777, 7716, 30107, 183>>, e |-> -56] ->
         [s |-> 0, m |-> <<10482, 19735, 31732, 254>>, e |-> -53]
      [] x = [s |-> 0, m |-> <<14592, 6168, 16350, 193>>, e |-> -56] ->
         [s |-> 0, m |-> <<26171, 32575, 28121, 254>>, e |-> -53]
      [] x = [s |-> 0, m |-> <<23971, 24883, 14676, 194>>, e |-> -56] ->
         [s |-> 0, m |-> <<30648, 13417, 27754, 254>>, e |-> -53]
      [] x = [s |-> 0, m |-> <<25605, 126, 15133, 197>>, e |-> -56] ->
         [s |-> 0, m |-> <<4984, 823, 26575, 254>>, e |-> -53]
      [] x = [s |-> 0, m |-> <<26699, 15780, 5538, 214>>, e |-> -56] ->
         [s |-> 0, m |-> <<28908, 13633, 19709, 254>>, e |-> -53]
      [] x = [s |-> 0, m |-> <<13120, 27250, 13754, 226>>, e |-> -56] ->
         [s |-> 0, m |-> <<26694, 9392, 14322, 254>>, e |-> -53]
      [] x = [s |-> 0, m |-> <<12176, 9852, 30717, 227>>, e |-> -56] ->
         [s |-> 0, m |-> <<24105, 4691, 13634, 254>>, e |-> -53]
      [] x = [s |-> 0, m |-> <<7934, 20367, 10999, 243>>, e |-> -56] ->
         [s |-> 0, m |-> <<764, 12221, 6393, 254>>, e |-> -53]
      [] x = [s |-> 0, m |-> <<11726, 47, 10969, 250>>, e |-> -56] ->
         [s |-> 0, m |-> <<6568, 16454, 2946, 254>>, e |-> -53]
      [] x = [s |-> 0, m |-> <<5407, 30283, 10970, 250>>, e |-> -56] ->
         [s |-> 0, m |-> <<31019, 15493, 2946, 254>>, e |-> -53]
      [] x = [s |-> 0, m |-> <<5967, 7986, 10972, 250>>, e |-> -56] ->
         [s |-> 0, m |-> <<30536, 14834, 2946, 254>>, e |-> -53]
      [] x = [s |-> 0, m |-> <<12733, 17783, 10982, 250>>, e |-> -56] ->
         [s |-> 0, m |-> <<12084, 9691, 2946, 254>>, e |-> -53]
      [] x = [s |-> 0, m |-> <<10522, 7157, 12726, 250>>, e |-> -56] ->
         [s |-> 0, m |-> <<30240, 23500, 2919, 254>>, e |-> -53]
      [] x = [s |-> 0, m |-> <<14506, 31578, 12971, 250>>, e |-> -56] ->
         [s |-> 0, m |-> <<30404, 31813, 2915, 254>>, e |-> -53]
      [] x = [s |-> 0, m |-> <<21918, 15821, 13427, 129>>, e |-> -55] ->
         [s |-> 0, m |-> <<22579, 17994, 31405, 253>>, e |-> -53]
      [] x = [s |-> 0, m |-> <<11080, 31795, 9880, 133>>, e |-> -55] ->
         [s |-> 0, m |-> <<17517, 3642, 27327, 253>>, e |-> -53]
      [] x = [s |-> 0, m |-> <<31362, 9174, 23627, 134>>, e |-> -55] ->
         [s |-> 0, m |-> <<31486, 20152, 25809, 253>>, e |-> -53]
      [] x = [s |-> 0, m |-> <<18338, 9603, 28753, 142>>, e |-> -55] ->
         [s |-> 0, m |-> <<12318, 16086, 16780, 253>>, e |-> -53]
      [] x = [s |-> 0, m |-> <<32064, 28886, 30519, 148>>, e |-> -55] ->
         [s |-> 0, m |-> <<31360, 1506, 9738, 253>>, e |-> -53]
      [] x = [s |-> 0, m |-> <<8365, 22864, 6879, 152>>, e |-> -55] ->
         [s |-> 0, m |-> <<11586, 821, 5803, 253>>, e |-> -53]
      [] x = [s |-> 0, m |-> <<25459, 31183, 8250, 152>>, e |-> -55] ->
         [s |-> 0, m |-> <<12762, 8156, 5752, 253>>, e |-> -53]
      [] x = [s |-> 0, m |-> <<2820, 31186, 8250, 152>>, e |-> -55] ->
         [s |-> 0, m |-> <<9960, 8156, 5752, 253>>, e |-> -53]
      [] x = [s |-> 0, m |-> <<26912, 14654, 26035, 152>>, e |-> -55] ->
         [s |-> 0, m |-> <<4151, 14806, 5092, 253>>, e |-> -53]
      [] x = [s |-> 0, m |-> <<5984, 15791, 24191, 154>>, e |-> -55] ->
         [s |-> 0, m |-> <<23462, 12749, 2710, 253>>, e |-> -53]
      [] x = [s |-> 0, m |-> <<2208, 8973, 13506, 164>>, e |-> -55] ->
         [s |-> 0, m |-> <<814, 20446, 23178, 252>>, e |-> -53]
      [] x = [s |-> 0, m |-> <<4634, 17200, 9141, 167>>, e |-> -55] ->
         [s |-> 0, m |-> <<5575, 21789, 19391, 252>>, e |-> -53]
      [] x = [s |-> 0, m |-> <<11412, 31619, 23600, 168>>, e |-> -55] ->
         [s |-> 0, m |-> <<11364, 9329, 17463, 252>>, e |-> -53]
      [] x = [s |-> 0, m |-> <<9772, 14100, 18551, 171>>, e |-> -55] ->
         [s |-> 0, m |-> <<4773, 13124, 13607, 252>>, e |-> -53]
      [] x = [s |-> 0, m |-> <<25916, 31220, 18988, 172>>, e |-> -55] ->
         [s |-> 0, m |-> <<23106, 32553, 12218, 252>>, e |-> -53]
      [] x = [s |-> 0, m |-> <<12042, 12640, 23243, 172>>, e |-> -55] ->
         [s |-> 0, m |-> <<15300, 17023, 12040, 252>>, e |-> -53]
      [] x = [s |-> 0, m |-> <<10366, 17799, 29442, 172>>, e |-> -55] ->
         [s |-> 0, m |-> <<7280, 7411, 11780, 252>>, e |-> -53]
      [] x = [s |-> 0, m |-> <<17532, 5582, 23649, 178>>, e |-> -55] ->
         [s |-> 0, m |-> <<7192, 6402, 3630, 252>>, e |-> -53]
      [] x = [s |-> 0, m |-> <<1997, 12324, 3917, 180>>, e |-> -55] ->
         [s |-> 0, m |-> <<1661, 1467, 1634, 252>>, e |-> -53]
      [] x = [s |-> 0, m |-> <<1920, 18203, 31259, 186>>, e |-> -55] ->
         [s |-> 0, m |-> <<2894, 25301, 24420, 251>>, e |-> -53]
      [] x = [s |-> 0, m |-> <<17912, 25960, 1399, 187>>, e |-> -55] ->
         [s |-> 0, m |-> <<20762, 24134, 24288, 251>>, e |-> -53]
      [] x = [s |-> 0, m |-> <<13373, 5751, 27774, 190>>, e |-> -55] ->
         [s |-> 0, m |-> <<11070, 224, 18570, 251>>, e |-> -53]
      [] x = [s |-> 0, m |-> <<4504, 28709, 16774, 191>>, e |-> -55] ->
         [s |-> 0, m |-> <<23837, 27873, 17559, 251>>, e |-> -53]
      [] x = [s |-> 0, m |-> <<10160, 20387, 8064, 196>>, e |-> -55] ->
         [s |-> 0, m |-> <<20072, 25479, 10260, 251>>, e |-> -53]
      [] x = [s |-> 0, m |-> <<31994, 22488, 24517, 198>>, e |-> -55] ->
         [s |-> 0, m |-> <<22529, 31742, 6331, 251>>, e |-> -53]
      [] x = [s |-> 0, m |-> <<2111, 6379, 13046, 200>>, e |-> -55] ->
         [s |-> 0, m |-> <<16535, 12423, 3714, 251>>, e |-> -53]
      [] x = [s |-> 0, m |-> <<15441, 11035, 17063, 201>>, e |-> -55] ->
         [s |-> 0, m |-> <<3036, 5758, 1921, 251>>, e |-> -53]
      [] x = [s |-> 0, m |-> <<21249, 28150, 3708, 211>>, e |-> -55] ->
         [s |-> 0, m |-> <<25325, 14736, 18963, 250>>, e |-> -53]
      [] x = [s |-> 0, m |-> <<22404, 5190, 3999, 214>>, e |-> -55] ->
         [s |-> 0, m |-> <<8458, 8335, 13882, 250>>, e |-> -53]
      [] x = [s |-> 0, m |-> <<13789, 16285, 10752, 217>>, e |-> -55] ->
         [s |-> 0, m |-> <<31353, 377, 8390, 250>>, e |-> -53]
      [] x = [s |-> 0, m |-> <<31928, 27461, 10188, 223>>, e |-> -55] ->
         [s |-> 0, m |-> <<15391, 5813, 30694, 249>>, e |-> -53]
      [] x = [s |-> 0, m |-> <<3934, 27462, 10188, 223>>, e |-> -55] ->
         [s |-> 0, m |-> <<15133, 5813, 30694, 249>>, e |-> -53]
      [] x = [s |-> 0, m |-> <<17752, 1542, 10262, 223>>, e |-> -55] ->
         [s |-> 0, m |-> <<1781, 7132, 30690, 249>>, e |-> -53]
      [] x = [s |-> 0, m |-> <<2768, 32148, 10904, 223>>, e |-> -55] ->
         [s |-> 0, m |-> <<14296, 14440, 30655, 249>>, e |-> -53]
      [] x = [s |-> 0, m |-> <<1664, 11584, 8125, 231>>, e |-> -55] ->
         [s |-> 0, m |-> <<18372, 802, 16381, 249>>, e |-> -53]
      [] x = [s |-> 0, m |-> <<25481, 11585, 8125, 231>>, e |-> -55] ->
         [s |-> 0, m |-> <<15205, 802, 16381, 249>>, e |-> -53]
      [] x = [s |-> 0, m |-> <<24004, 20192, 8344, 231>>, e |-> -55] ->
         [s |-> 0, m |-> <<11987, 24587, 16368, 249>>, e |-> -53]
      [] x = [s |-> 0, m |-> <<8432, 28886, 35, 232>>, e |-> -55] ->
         [s |-> 0, m |-> <<32322, 11451, 14997, 249>>, e |-> -53]
      [] x = [s |-> 0, m |-> <<30440, 30281, 20610, 240>>, e |-> -55] ->
         [s |-> 0, m |-> <<19614, 18805, 31598, 248>>, e |-> -53]
      [] x = [s |-> 0, m |-> <<32672, 20301, 1358, 141>>, e |-> -54] ->
         [s |-> 0, m |-> <<11371, 17857, 11404, 246>>, e |-> -53]
      [] x = [s |-> 0, m |-> <<9010, 9472, 7742, 144>>, e |-> -54] ->
         [s |-> 0, m |-> <<11080, 30187, 29777, 245>>, e |-> -53]
      [] x = [s |-> 0, m |-> <<21839, 29718, 5695, 153>>, e |-> -54] ->
         [s |-> 0, m |-> <<18887, 32537, 20611, 244>>, e |-> -53]
      [] x = [s |-> 0, m |-> <<15860, 31414, 5695, 153>>, e |-> -54] ->
         [s |-> 0, m |-> <<22169, 32287, 20611, 244>>, e |-> -53]
      [] x = [s |-> 0, m |-> <<2924, 10679, 5696, 153>>, e |-> -54] ->
         [s |-> 0, m |-> <<17112, 30514, 20611, 244>>, e |-> -53]
      [] x = [s |-> 0, m |-> <<5229, 10750, 5696, 153>>, e |-> -54] ->
         [s |-> 0, m |-> <<1610, 30504, 20611, 244>>, e |-> -53]
      [] x = [s |-> 0, m |-> <<8697, 10759, 5696, 153>>, e |-> -54] ->
         [s |-> 0, m |-> <<23176, 30502, 20611, 244>>, e |-> -53]
      [] x = [s |-> 0, m |-> <<17484, 10772, 5696, 153>>, e |-> -54] ->
         [s |-> 0, m |-> <<24643, 30500, 20611, 244>>, e |-> -53]
      [] x = [s |-> 0, m |-> <<22807, 16827, 2718, 157>>, e |-> -54] ->
         [s |-> 0, m |-> <<5490, 6569, 1502, 244>>, e |-> -53]
      [] x = [s |-> 0, m |-> <<13476, 29521, 19907, 161>>, e |-> -54] ->
         [s |-> 0, m |-> <<32041, 28508, 11569, 243>>, e |-> -53]
      [] x = [s |-> 0, m |-> <<7440, 19690, 16037, 162>>, e |-> -54] ->
         [s |-> 0, m |-> <<28567, 25035, 7072, 243>>, e |-> -53]
      [] x = [s |-> 0, m |-> <<8060, 18326, 20427, 162>>, e |-> -54] ->
         [s |-> 0, m |-> <<5992, 17125, 6387, 243>>, e |-> -53]
      [] x = [s |-> 0, m |-> <<32068, 26598, 23927, 163>>, e |-> -54] ->
         [s |-> 0, m |-> <<14658, 14267, 705, 243>>, e |-> -53]
      [] x = [s |-> 0, m |-> <<7344, 24266, 24644, 164>>, e |-> -54] ->
         [s |-> 0, m |-> <<1153, 12008, 28194, 242>>, e |-> -53]
      [] x = [s |-> 0, m |-> <<7804, 2461, 8712, 165>>, e |-> -54] ->
         [s |-> 0, m |-> <<24050, 6995, 25528, 242>>, e |-> -53]
      [] x = [s |-> 0, m |-> <<11825, 14597, 18299, 165>>, e |-> -54] ->
         [s |-> 0, m |-> <<28645, 10327, 24006, 242>>, e |-> -53]
      [] x = [s |-> 0, m |-> <<25457, 31143, 24605, 165>>, e |-> -54] ->
         [s |-> 0, m |-> <<12547, 26375, 23003, 242>>, e |-> -53]
      [] x = [s |-> 0, m |-> <<140, 21219, 4505, 166>>, e |-> -54] ->
         [s |-> 0, m |-> <<24366, 22793, 20986, 242>>, e |-> -53]
      [] x = [s |-> 0, m |-> <<2638, 4791, 6811, 170>>, e |-> -54] ->
         [s |-> 0, m |-> <<4631, 25220, 32241, 241>>, e |-> -53]
      [] x = [s |-> 0, m |-> <<2639, 4791, 6811, 170>>, e |-> -54] ->
         [s |-> 0, m |-> <<4630, 25220, 32241, 241>>, e |-> -53]
      [] x = [s |-> 0, m |-> <<2640, 4791, 6811, 170>>, e |-> -54] ->
         [s |-> 0, m |-> <<4630, 25220, 32241, 241>>, e |-> -53]
      [] x = [s |-> 0, m |-> <<12299, 3931, 7390, 172>>, e |-> -54] ->
         [s |-> 0, m |-> <<4862, 32457, 21391, 241>>, e |-> -53]
      [] x = [s |-> 0, m |-> <<1327, 30563, 19227, 174>>, e |-> -54] ->
         [s |-> 0, m |-> <<10583, 14094, 8538, 241>>, e |-> -53]
      [] x = [s |-> 0, m |-> <<25868, 5767, 30169, 174>>, e |-> -54] ->
         [s |-> 0, m |-> <<8809, 8629, 6707, 241>>, e |-> -53]
      [] x = [s |-> 0, m |-> <<19068, 25286, 24429, 175>>, e |-> -54] ->
         [s |-> 0, m |-> <<26163, 8219, 2169, 241>>, e |-> -53]
      [] x = [s |-> 0, m |-> <<23050, 25299, 24429, 175>>, e |-> -54] ->
         [s |-> 0, m |-> <<19346, 8217, 2169, 241>>, e |-> -53]
      [] x = [s |-> 0, m |-> <<23523, 8059, 24780, 175>>, e |-> -54] ->
         [s |-> 0, m |-> <<23714, 8935, 2110, 241>>, e |-> -53]
      [] x = [s |-> 0, m |-> <<5072, 6162, 3557, 181>>, e |-> -54] ->
         [s |-> 0, m |-> <<26125, 12683, 4932, 240>>, e |-> -53]
      [] x = [s |-> 0, m |-> <<27985, 7206, 11362, 188>>, e |-> -54] ->
         [s |-> 0, m |-> <<28779, 32680, 28603, 238>>, e |-> -53]
      [] x = [s |-> 0, m |-> <<29722, 2250, 24692, 188>>, e |-> -54] ->
         [s |-> 0, m |-> <<10246, 21668, 26204, 238>>, e |-> -53]
      [] x = [s |-> 0, m |-> <<16447, 5425, 24692, 188>>, e |-> -54] ->
         [s |-> 0, m |-> <<10030, 21096, 26204, 238>>, e |-> -53]
      [] x = [s |-> 0, m |-> <<14180, 24182, 27990, 188>>, e |-> -54] ->
         [s |-> 0, m |-> <<3949, 4829, 25610, 238>>, e |-> -53]
      [] x = [s |-> 0, m |-> <<6286, 10997, 4848, 189>>, e |-> -54] ->
         [s |-> 0, m |-> <<12262, 20064, 23873, 238>>, e |-> -53]
      [] x = [s |-> 0, m |-> <<14847, 13442, 21996, 190>>, e |-> -54] ->
         [s |-> 0, m |-> <<22912, 2132, 14827, 238>>, e |-> -53]
      [] x = [s |-> 0, m |-> <<14856, 13442, 21996, 190>>, e |-> -54] ->
         [s |-> 0, m |-> <<22910, 2132, 14827, 238>>, e |-> -53]
      [] x = [s |-> 0, m |-> <<14406, 5252, 21999, 190>>, e |-> -54] ->
         [s |-> 0, m |-> <<13657, 18506, 14826, 238>>, e |-> -53]
      [] x = [s |-> 0, m |-> <<11776, 4895, 22209, 191>>, e |-> -54] ->
         [s |-> 0, m |-> <<4823, 27646, 8811, 238>>, e |-> -53]
      [] x = [s |-> 0, m |-> <<12018, 29708, 19992, 192>>, e |-> -54] ->
         [s |-> 0, m |-> <<9776, 23381, 3212, 238>>, e |-> -53]
      [] x = [s |-> 0, m |-> <<26261, 1066, 21900, 192>>, e |-> -54] ->
         [s |-> 0, m |-> <<27891, 11209, 2862, 238>>, e |-> -53]
      [] x = [s |-> 0, m |-> <<5143, 7053, 22859, 192>>, e |-> -54] ->
         [s |-> 0, m |-> <<21411, 2812, 2686, 238>>, e |-> -53]
      [] x = [s |-> 0, m |-> <<4804, 26836, 15736, 193>>, e |-> -54] ->
         [s |-> 0, m |-> <<8214, 2632, 30732, 237>>, e |-> -53]
      [] x = [s |-> 0, m |-> <<21252, 9190, 27222, 195>>, e |-> -54] ->
         [s |-> 0, m |-> <<8048, 124, 16441, 237>>, e |-> -53]
      [] x = [s |-> 0, m |-> <<2324, 27810, 27524, 196>>, e |-> -54] ->
         [s |-> 0, m |-> <<18291, 17038, 10254, 237>>, e |-> -53]
      [] x = [s |-> 0, m |-> <<25412, 20693, 14983, 198>>, e |-> -54] ->
         [s |-> 0, m |-> <<29795, 27416, 277, 237>>, e |-> -53]
      [] x = [s |-> 0, m |-> <<13782, 21674, 16940, 204>>, e |-> -54] ->
         [s |-> 0, m |-> <<29942, 4071, 27744, 235>>, e |-> -53]
      [] x = [s |-> 0, m |-> <<27484, 8315, 30387, 208>>, e |-> -54] ->
         [s |-> 0, m |-> <<31604, 14806, 32123, 234>>, e |-> -53]
      [] x = [s |-> 0, m |-> <<23014, 12934, 13964, 209>>, e |-> -54] ->
         [s |-> 0, m |-> <<5679, 22056, 28876, 234>>, e |-> -53]
      [] x = [s |-> 0, m |-> <<17690, 17744, 13965, 209>>, e |-> -54] ->
         [s |-> 0, m |-> <<11746, 14583, 28876, 234>>, e |-> -53]
      [] x = [s |-> 0, m |-> <<12297, 2057, 13966, 209>>, e |-> -54] ->
         [s |-> 0, m |-> <<20448, 11186, 28876, 234>>, e |-> -53]
      [] x = [s |-> 0, m |-> <<20706, 3263, 13967, 209>>, e |-> -54] ->
         [s |-> 0, m |-> <<13895, 4430, 28876, 234>>, e |-> -53]
      [] x = [s |-> 0, m |-> <<23780, 3560, 13967, 209>>, e |-> -54] ->
         [s |-> 0, m |-> <<11248, 4371, 28876, 234>>, e |-> -53]
      [] x = [s |-> 0, m |-> <<17944, 13699, 13967, 209>>, e |-> -54] ->
         [s |-> 0, m |-> <<3712, 2355, 28876, 234>>, e |-> -53]
      [] x = [s |-> 0, m |-> <<7081, 27364, 13967, 209>>, e |-> -54] ->
         [s |-> 0, m |-> <<23757, 32405, 28875, 234>>, e |-> -53]
      [] x = [s |-> 0, m |-> <<8056, 15229, 13973, 209>>, e |-> -54] ->
         [s |-> 0, m |-> <<31689, 28488, 28874, 234>>, e |-> -53]
      [] x = [s |-> 0, m |-> <<8446, 11184, 13975, 209>>, e |-> -54] ->
         [s |-> 0, m |-> <<23190, 16260, 28874, 234>>, e |-> -53]
      [] x = [s |-> 0, m |-> <<28216, 20251, 14132, 209>>, e |-> -54] ->
         [s |-> 0, m |-> <<25939, 7190, 28843, 234>>, e |-> -53]
      [] x = [s |-> 0, m |-> <<10314, 2849, 14923, 209>>, e |-> -54] ->
         [s |-> 0, m |-> <<2546, 420, 28686, 234>>, e |-> -53]
      [] x = [s |-> 0, m |-> <<29594, 19685, 14926, 209>>, e |-> -54] ->
         [s |-> 0, m |-> <<30622, 10287, 28685, 234>>, e |-> -53]
      [] x = [s |-> 0, m |-> <<11069, 23812, 16833, 209>>, e |-> -54] ->
         [s |-> 0, m |-> <<13143, 31413, 28305, 234>>, e |-> -53]
      [] x = [s |-> 0, m |-> <<15227, 2702, 3906, 212>>, e |-> -54] ->
         [s |-> 0, m |-> <<4336, 17987, 11221, 234>>, e |-> -53]
      [] x = [s |-> 0, m |-> <<3487, 5233, 32150, 214>>, e |-> -54] ->
         [s |-> 0, m |-> <<13748, 10948, 24994, 233>>, e |-> -53]
      [] x = [s |-> 0, m |-> <<17596, 19241, 6267, 219>>, e |-> -54] ->
         [s |-> 0, m |-> <<1850, 4371, 29384, 232>>, e |-> -53]
      [] x = [s |-> 0, m |-> <<18531, 29168, 6557, 219>>, e |-> -54] ->
         [s |-> 0, m |-> <<23607, 28592, 29323, 232>>, e |-> -53]
      [] x = [s |-> 0, m |-> <<26153, 29168, 6557, 219>>, e |-> -54] ->
         [s |-> 0, m |-> <<22024, 28592, 29323, 232>>, e |-> -53]
      [] x = [s |-> 0, m |-> <<26776, 30361, 11926, 220>>, e |-> -54] ->
         [s |-> 0, m |-> <<23336, 18429, 21387, 232>>, e |-> -53]
      [] x = [s |-> 0, m |-> <<19504, 32650, 18666, 221>>, e |-> -54] ->
         [s |-> 0, m |-> <<21829, 13072, 13124, 232>>, e |-> -53]
      [] x = [s |-> 0, m |-> <<28810, 28979, 24227, 224>>, e |-> -54] ->
         [s |-> 0, m |-> <<13953, 19673, 23967, 231>>, e |-> -53]
      [] x = [s |-> 0, m |-> <<12932, 10146, 26666, 225>>, e |-> -54] ->
         [s |-> 0, m |-> <<6448, 26380, 16469, 231>>, e |-> -53]
      [] x = [s |-> 0, m |-> <<20716, 5849, 32400, 225>>, e |-> -54] ->
         [s |-> 0, m |-> <<26035, 16971, 15245, 231>>, e |-> -53]
      [] x = [s |-> 0, m |-> <<32, 30666, 4587, 229>>, e |-> -54] ->
         [s |-> 0, m |-> <<25377, 5027, 25814, 230>>, e |-> -53]
      [] x = [s |-> 0, m |-> <<18908, 8710, 8763, 233>>, e |-> -54] ->
         [s |-> 0, m |-> <<1915, 23601, 29072, 229>>, e |-> -53]
      [] x = [s |-> 0, m |-> <<26680, 5066, 17344, 237>>, e |-> -54] ->
         [s |-> 0, m |-> <<2378, 11687, 30856, 228>>, e |-> -53]
      [] x = [s |-> 0, m |-> <<28455, 17147, 11134, 245>>, e |-> -54] ->
         [s |-> 0, m |-> <<4203, 11596, 5493, 227>>, e |-> -53]
      [] x = [s |-> 0, m |-> <<28487, 6390, 3138, 130>>, e |-> -53] ->
         [s |-> 0, m |-> <<31335, 20100, 21261, 223>>, e |-> -53]
      [] x = [s |-> 0, m |-> <<9404, 13544, 4614, 130>>, e |-> -53] ->
         [s |-> 0, m |-> <<24694, 5939, 20543, 223>>, e |-> -53]
      [] x = [s |-> 0, m |-> <<10264, 28214, 15088, 130>>, e |-> -53] ->
         [s |-> 0, m |-> <<13664, 1913, 15439, 223>>, e |-> -53]
      [] x = [s |-> 0, m |-> <<6946, 23860, 15150, 130>>, e |-> -53] ->
         [s |-> 0, m |-> <<22052, 28739, 15408, 223>>, e |-> -53]
      [] x = [s |-> 0, m |-> <<21007, 21457, 15158, 130>>, e |-> -53] ->
         [s |-> 0, m |-> <<5779, 330, 15405, 223>>, e |-> -53]
      [] x = [s |-> 0, m |-> <<9543, 6712, 15170, 130>>, e |-> -53] ->
         [s |-> 0, m |-> <<28416, 12302, 15399, 223>>, e |-> -53]
      [] x = [s |-> 0, m |-> <<565, 6330, 23287, 131>>, e |-> -53] ->
         [s |-> 0, m |-> <<10049, 29082, 28134, 222>>, e |-> -53]
      [] x = [s |-> 0, m |-> <<11967, 7224, 30563, 132>>, e |-> -53] ->
         [s |-> 0, m |-> <<32204, 9442, 8346, 222>>, e |-> -53]
      [] x = [s |-> 0, m |-> <<5851, 18089, 31393, 132>>, e |-> -53] ->
         [s |-> 0, m |-> <<9357, 6701, 7934, 222>>, e |-> -53]
      [] x = [s |-> 0, m |-> <<20416, 7036, 9877, 133>>, e |-> -53] ->
         [s |-> 0, m |-> <<16601, 3461, 2343, 222>>, e |-> -53]
      [] x = [s |-> 0, m |-> <<8924, 12973, 16623, 133>>, e |-> -53] ->
         [s |-> 0, m |-> <<13969, 18388, 31752, 221>>, e |-> -53]
      [] x = [s |-> 0, m |-> <<29541, 28762, 1352, 134>>, e |-> -53] ->
         [s |-> 0, m |-> <<19627, 20656, 23019, 221>>, e |-> -53]
      [] x = [s |-> 0, m |-> <<23878, 7095, 3906, 139>>, e |-> -53] ->
         [s |-> 0, m |-> <<25449, 9752, 3935, 219>>, e |-> -53]
      [] x = [s |-> 0, m |-> <<705, 1266, 8426, 143>>, e |-> -53] ->
         [s |-> 0, m |-> <<30383, 24919, 31192, 216>>, e |-> -53]
      [] x = [s |-> 0, m |-> <<10343, 17947, 17587, 147>>, e |-> -53] ->
         [s |-> 0, m |-> <<7649, 17331, 21296, 214>>, e |-> -53]
      [] x = [s |-> 0, m |-> <<26671, 21252, 1091, 148>>, e |-> -53] ->
         [s |-> 0, m |-> <<10289, 423, 12416, 214>>, e |-> -53]
      [] x = [s |-> 0, m |-> <<27494, 60, 1799, 148>>, e |-> -53] ->
         [s |-> 0, m |-> <<12938, 12268, 12029, 214>>, e |-> -53]
      [] x = [s |-> 0, m |-> <<17794, 21554, 19123, 154>>, e |-> -53] ->
         [s |-> 0, m |-> <<23371, 31835, 23886, 210>>, e |-> -53]
      [] x = [s |-> 0, m |-> <<26303, 28408, 8741, 156>>, e |-> -53] ->
         [s |-> 0, m |-> <<25975, 28371, 25188, 209>>, e |-> -53]
      [] x = [s |-> 0, m |-> <<14121, 23746, 13515, 159>>, e |-> -53] ->
         [s |-> 0, m |-> <<31522, 7854, 31122, 207>>, e |-> -53]
      [] x = [s |-> 0, m |-> <<20611, 30772, 13697, 159>>, e |-> -53] ->
         [s |-> 0, m |-> <<8399, 31600, 31015, 207>>, e |-> -53]
      [] x = [s |-> 0, m |-> <<29042, 30772, 13697, 159>>, e |-> -53] ->
         [s |-> 0, m |-> <<3482, 31600, 31015, 207>>, e |-> -53]
      [] x = [s |-> 0, m |-> <<29496, 19528, 15370, 159>>, e |-> -53] ->
         [s |-> 0, m |-> <<13781, 8131, 30040, 207>>, e |-> -53]
      [] x = [s |-> 0, m |-> <<14606, 1184, 20920, 160>>, e |-> -53] ->
         [s |-> 0, m |-> <<22850, 10286, 7614, 207>>, e |-> -53]
      [] x = [s |-> 0, m |-> <<16716, 11407, 6159, 168>>, e |-> -53] ->
         [s |-> 0, m |-> <<23402, 19097, 23279, 202>>, e |-> -53]
      [] x = [s |-> 0, m |-> <<23975, 29719, 9240, 168>>, e |-> -53] ->
         [s |-> 0, m |-> <<6879, 4232, 21397, 202>>, e |-> -53]
      [] x = [s |-> 0, m |-> <<13540, 24308, 13203, 172>>, e |-> -53] ->
         [s |-> 0, m |-> <<3286, 686, 3567, 200>>, e |-> -53]
      [] x = [s |-> 0, m |-> <<20886, 3768, 16827, 175>>, e |-> -53] ->
         [s |-> 0, m |-> <<16173, 29452, 5049, 198>>, e |-> -53]
      [] x = [s |-> 0, m |-> <<27776, 25621, 30183, 184>>, e |-> -53] ->
         [s |-> 0, m |-> <<32616, 19820, 2141, 192>>, e |-> -53]
      [] x = [s |-> 0, m |-> <<25240, 11267, 25450, 185>>, e |-> -53] ->
         [s |-> 0, m |-> <<14306, 16130, 16339, 191>>, e |-> -53]
      [] x = [s |-> 0, m |-> <<8978, 26247, 3237, 199>>, e |-> -53] ->
         [s |-> 0, m |-> <<20184, 5708, 13177, 182>>, e |-> -53]
      [] x = [s |-> 0, m |-> <<14585, 4627, 15969, 200>>, e |-> -53] ->
         [s |-> 0, m |-> <<1231, 5892, 13932, 181>>, e |-> -53]
      [] x = [s |-> 0, m |-> <<11542, 10376, 2029, 201>>, e |-> -53] ->
         [s |-> 0, m |-> <<15310, 19710, 633, 181>>, e |-> -53]
      [] x = [s |-> 0, m |-> <<11543, 10376, 2029, 201>>, e |-> -53] ->
         [s |-> 0, m |-> <<15309, 19710, 633, 181>>, e |-> -53]
      [] x = [s |-> 0, m |-> <<11544, 10376, 2029, 201>>, e |-> -53] ->
         [s |-> 0, m |-> <<15309, 19710, 633, 181>>, e |-> -53]
      [] x = [s |-> 0, m |-> <<11545, 10376, 2029, 201>>, e |-> -53] ->
         [s |-> 0, m |-> <<15308, 19710, 633, 181>>, e |-> -53]
      [] x = [s |-> 0, m |-> <<5759, 26109, 17798, 203>>, e |-> -53] ->
         [s |-> 0, m |-> <<3433, 7613, 8400, 179>>, e |-> -53]
      [] x = [s |-> 0, m |-> <<4009, 774, 11666, 209>>, e |-> -53] ->
         [s |-> 0, m |-> <<18883, 11323, 1984, 175>>, e |-> -53]
      [] x = [s |-> 0, m |-> <<23813, 821, 11666, 209>>, e |-> -53] ->
         [s |-> 0, m |-> <<27596, 11288, 1984, 175>>, e |-> -53]
      [] x = [s |-> 0, m |-> <<3383, 21273, 12039, 209>>, e |-> -53] ->
         [s |-> 0, m |-> <<9914, 23832, 1711, 175>>, e |-> -53]
      [] x = [s |-> 0, m |-> <<23304, 26450, 15322, 213>>, e |-> -53] ->
         [s |-> 0, m |-> <<13253, 2359, 1249, 172>>, e |-> -53]
      [] x = [s |-> 0, m |-> <<24149, 25637, 26301, 215>>, e |-> -53] ->
         [s |-> 0, m |-> <<313, 24847, 9889, 170>>, e |-> -53]
      [] x = [s |-> 0, m |-> <<844, 27770, 26306, 215>>, e |-> -53] ->
         [s |-> 0, m |-> <<12096, 31999, 9885, 170>>, e |-> -53]
      [] x = [s |-> 0, m |-> <<16436, 10603, 26310, 215>>, e |-> -53] ->
         [s |-> 0, m |-> <<8402, 12490, 9883, 170>>, e |-> -53]
      [] x = [s |-> 0, m |-> <<32413, 14890, 26337, 215>>, e |-> -53] ->
         [s |-> 0, m |-> <<19876, 4078, 9863, 170>>, e |-> -53]
      [] x = [s |-> 0, m |-> <<15066, 28082, 30930, 215>>, e |-> -53] ->
         [s |-> 0, m |-> <<3753, 23288, 6432, 170>>, e |-> -53]
      [] x = [s |-> 0, m |-> <<22213, 7506, 31578, 215>>, e |-> -53] ->
         [s |-> 0, m |-> <<4722, 3611, 5949, 170>>, e |-> -53]
      [] x = [s |-> 0, m |-> <<11312, 27703, 10174, 216>>, e |-> -53] ->
         [s |-> 0, m |-> <<25568, 3191, 30222, 169>>, e |-> -53]
      [] x = [s |-> 0, m |-> <<22784, 25459, 3420, 221>>, e |-> -53] ->
         [s |-> 0, m |-> <<1500, 28147, 10064, 166>>, e |-> -53]
      [] x = [s |-> 0, m |-> <<2192, 19660, 3432, 221>>, e |-> -53] ->
         [s |-> 0, m |-> <<25977, 28527, 10055, 166>>, e |-> -53]
      [] x = [s |-> 0, m |-> <<28646, 23396, 3440, 221>>, e |-> -53] ->
         [s |-> 0, m |-> <<3479, 23001, 10049, 166>>, e |-> -53]
      [] x = [s |-> 0, m |-> <<4862, 1424, 3504, 221>>, e |-> -53] ->
         [s |-> 0, m |-> <<21825, 18213, 10001, 166>>, e |-> -53]
      [] x = [s |-> 0, m |-> <<1236, 2308, 14226, 221>>, e |-> -53] ->
         [s |-> 0, m |-> <<25325, 22214, 1845, 166>>, e |-> -53]
      [] x = [s |-> 0, m |-> <<8977, 5943, 15737, 221>>, e |-> -53] ->
         [s |-> 0, m |-> <<5880, 16800, 695, 166>>, e |-> -53]
      [] x = [s |-> 0, m |-> <<5545, 15170, 13177, 223>>, e |-> -53] ->
         [s |-> 0, m |-> <<5661, 9336, 18141, 164>>, e |-> -53]
      [] x = [s |-> 0, m |-> <<22130, 17540, 13802, 226>>, e |-> -53] ->
         [s |-> 0, m |-> <<2665, 351, 7520, 162>>, e |-> -53]
      [] x = [s |-> 0, m |-> <<11542, 32363, 13991, 226>>, e |-> -53] ->
         [s |-> 0, m |-> <<32614, 14889, 7373, 162>>, e |-> -53]
      [] x = [s |-> 0, m |-> <<23636, 32363, 13991, 226>>, e |-> -53] ->
         [s |-> 0, m |-> <<23258, 14889, 7373, 162>>, e |-> -53]
      [] x = [s |-> 0, m |-> <<29335, 10659, 30510, 231>>, e |-> -53] ->
         [s |-> 0, m |-> <<769, 30557, 30472, 157>>, e |-> -53]
      [] x = [s |-> 0, m |-> <<2351, 14045, 30697, 231>>, e |-> -53] ->
         [s |-> 0, m |-> <<1618, 22125, 30325, 157>>, e |-> -53]
      [] x = [s |-> 0, m |-> <<14334, 14045, 30697, 231>>, e |-> -53] ->
         [s |-> 0, m |-> <<24955, 22124, 30325, 157>>, e |-> -53]
      [] x = [s |-> 0, m |-> <<23810, 17722, 13468, 232>>, e |-> -53] ->
         [s |-> 0, m |-> <<27324, 27272, 18086, 157>>, e |-> -53]
      [] x = [s |-> 0, m |-> <<4118, 32304, 14612, 232>>, e |-> -53] ->
         [s |-> 0, m |-> <<14511, 24542, 17184, 157>>, e |-> -53]
      [] x = [s |-> 0, m |-> <<4929, 32338, 14612, 232>>, e |-> -53] ->
         [s |-> 0, m |-> <<20387, 24515, 17184, 157>>, e |-> -53]
      [] x = [s |-> 0, m |-> <<9777, 899, 20748, 233>>, e |-> -53] ->
         [s |-> 0, m |-> <<26148, 8525, 19231, 156>>, e |-> -53]
      [] x = [s |-> 0, m |-> <<3266, 29918, 11483, 236>>, e |-> -53] ->
         [s |-> 0, m |-> <<26612, 24878, 14038, 154>>, e |-> -53]
      [] x = [s |-> 0, m |-> <<7047, 23897, 11334, 239>>, e |-> -53] ->
         [s |-> 0, m |-> <<5244, 16996, 945, 152>>, e |-> -53]
      [] x = [s |-> 0, m |-> <<8824, 1698, 11549, 245>>, e |-> -53] ->
         [s |-> 0, m |-> <<28211, 7891, 5072, 147>>, e |-> -53]
      [] x = [s |-> 0, m |-> <<12665, 5633, 12997, 245>>, e |-> -53] ->
         [s |-> 0, m |-> <<32564, 6714, 3887, 147>>, e |-> -53]
      [] x = [s |-> 0, m |-> <<10132, 8187, 23272, 245>>, e |-> -53] ->
         [s |-> 0, m |-> <<6496, 23139, 28242, 146>>, e |-> -53]
      [] x = [s |-> 0, m |-> <<15597, 30782, 23332, 245>>, e |-> -53] ->
         [s |-> 0, m |-> <<32390, 32650, 28192, 146>>, e |-> -53]
      [] x = [s |-> 0, m |-> <<280, 23436, 23340, 245>>, e |-> -53] ->
         [s |-> 0, m |-> <<9724, 20558, 28186, 146>>, e |-> -53]
      [] x = [s |-> 0, m |-> <<28845, 1486, 23352, 245>>, e |-> -53] ->
         [s |-> 0, m |-> <<4594, 11371, 28177, 146>>, e |-> -53]
      [] x = [s |-> 0, m |-> <<978, 15635, 28897, 247>>, e |-> -53] ->
         [s |-> 0, m |-> <<28064, 16770, 2551, 145>>, e |-> -53]
      [] x = [s |-> 0, m |-> <<18435, 6615, 17551, 253>>, e |-> -53] ->
         [s |-> 0, m |-> <<10089, 10745, 12604, 140>>, e |-> -53]
      [] x = [s |-> 0, m |-> <<22304, 27922, 18877, 253>>, e |-> -53] ->
         [s |-> 0, m |-> <<30427, 28983, 11494, 140>>, e |-> -53]
      [] x = [s |-> 0, m |-> <<10816, 28542, 11495, 254>>, e |-> -53] ->
         [s |-> 0, m |-> <<23285, 2743, 23011, 139>>, e |-> -53]
      [] x = [s |-> 0, m |-> <<190, 29562, 1428, 255>>, e |-> -53] ->
         [s |-> 0, m |-> <<8666, 16263, 3971, 139>>, e |-> -53]
      [] x = [s |-> 0, m |-> <<31517, 29563, 1428, 255>>, e |-> -53] ->
         [s |-> 0, m |-> <<20397, 16261, 3971, 139>>, e |-> -53]
      [] x = [s |-> 0, m |-> <<17266, 14494, 1455, 255>>, e |-> -53] ->
         [s |-> 0, m |-> <<7780, 7118, 3949, 139>>, e |-> -53]
      [] x = [s |-> 0, m |-> <<13772, 11158, 19144, 255>>, e |-> -53] ->
         [s |-> 0, m |-> <<81, 5808, 21858, 138>>, e |-> -53]
      [] x = [s |-> 0, m |-> <<25133, 13058, 22163, 128>>, e |-> -52] ->
         [s |-> 0, m |-> <<7025, 14026, 5805, 137>>, e |-> -53]
      [] x = [s |-> 0, m |-> <<32205, 16754, 2818, 133>>, e |-> -52] ->
         [s |-> 0, m |-> <<4699, 32130, 21331, 129>>, e |-> -53]
      [] x = [s |-> 0, m |-> <<29541, 28762, 1352, 134>>, e |-> -52] ->
         [s |-> 0, m |-> <<1, 0, 0, 128>>, e |-> -53]
      [] x = [s |-> 0, m |-> <<3157, 1053, 22683, 134>>, e |-> -52] ->
         [s |-> 0, m |-> <<26093, 718, 24306, 253>>, e |-> -54]
      [] x = [s |-> 0, m |-> <<9345, 14710, 26292, 134>>, e |-> -52] ->
         [s |-> 0, m |-> <<9968, 285, 11763, 253>>, e |-> -54]
      [] x = [s |-> 0, m |-> <<14539, 7832, 10274, 135>>, e |-> -52] ->
         [s |-> 0, m |-> <<21539, 27049, 19011, 251>>, e |-> -54]
      [] x = [s |-> 0, m |-> <<22180, 8255, 30062, 136>>, e |-> -52] ->
         [s |-> 0, m |-> <<14960, 10776, 31882, 245>>, e |-> -54]
      [] x = [s |-> 0, m |-> <<23211, 4772, 22399, 138>>, e |-> -52] ->
         [s |-> 0, m |-> <<25913, 32218, 24701, 239>>, e |-> -54]
      [] x = [s |-> 0, m |-> <<22972, 4713, 26654, 138>>, e |-> -52] ->
         [s |-> 0, m |-> <<12321, 10440, 9659, 239>>, e |-> -54]
      [] x = [s |-> 0, m |-> <<22973, 4713, 26654, 138>>, e |-> -52] ->
         [s |-> 0, m |-> <<12318, 10440, 9659, 239>>, e |-> -54]
      [] x = [s |-> 0, m |-> <<24047, 7820, 26654, 138>>, e |-> -52] ->
         [s |-> 0, m |-> <<5143, 32221, 9658, 239>>, e |-> -54]
      [] x = [s |-> 0, m |-> <<24807, 23523, 7701, 139>>, e |-> -52] ->
         [s |-> 0, m |-> <<11430, 21641, 26297, 237>>, e |-> -54]
      [] x = [s |-> 0, m |-> <<23234, 31075, 16225, 139>>, e |-> -52] ->
         [s |-> 0, m |-> <<29499, 17091, 28853, 236>>, e |-> -54]
      [] x = [s |-> 0, m |-> <<4162, 14987, 16712, 139>>, e |-> -52] ->
         [s |-> 0, m |-> <<24988, 7733, 27128, 236>>, e |-> -54]
      [] x = [s |-> 0, m |-> <<30228, 15000, 16712, 139>>, e |-> -52] ->
         [s |-> 0, m |-> <<27487, 7684, 27128, 236>>, e |-> -54]
      [] x = [s |-> 0, m |-> <<17141, 23536, 17138, 139>>, e |-> -52] ->
         [s |-> 0, m |-> <<21, 17034, 25616, 236>>, e |-> -54]
      [] x = [s |-> 0, m |-> <<16067, 26911, 25859, 139>>, e |-> -52] ->
         [s |-> 0, m |-> <<11721, 30446, 27437, 235>>, e |-> -54]
      [] x = [s |-> 0, m |-> <<32716, 15986, 28185, 139>>, e |-> -52] ->
         [s |-> 0, m |-> <<12607, 23518, 19179, 235>>, e |-> -54]
      [] x = [s |-> 0, m |-> <<2849, 29251, 31573, 139>>, e |-> -52] ->
         [s |-> 0, m |-> <<20502, 19041, 7143, 235>>, e |-> -54]
      [] x = [s |-> 0, m |-> <<17499, 22688, 30491, 140>>, e |-> -52] ->
         [s |-> 0, m |-> <<3522, 10931, 25420, 231>>, e |-> -54]
      [] x = [s |-> 0, m |-> <<27067, 16717, 1757, 141>>, e |-> -52] ->
         [s |-> 0, m |-> <<16889, 16213, 11029, 231>>, e |-> -54]
      [] x = [s |-> 0, m |-> <<17357, 4448, 29511, 141>>, e |-> -52] ->
         [s |-> 0, m |-> <<7816, 24159, 10131, 228>>, e |-> -54]
      [] x = [s |-> 0, m |-> <<26249, 26004, 14443, 142>>, e |-> -52] ->
         [s |-> 0, m |-> <<9473, 21884, 12227, 226>>, e |-> -54]
      [] x = [s |-> 0, m |-> <<17852, 32662, 1437, 143>>, e |-> -52] ->
         [s |-> 0, m |-> <<14387, 28863, 6778, 224>>, e |-> -54]
      [] x = [s |-> 0, m |-> <<24461, 106, 1438, 143>>, e |-> -52] ->
         [s |-> 0, m |-> <<11251, 28100, 6778, 224>>, e |-> -54]
      [] x = [s |-> 0, m |-> <<10851, 3902, 1903, 143>>, e |-> -52] ->
         [s |-> 0, m |-> <<2015, 7060, 5106, 224>>, e |-> -54]
      [] x = [s |-> 0, m |-> <<31007, 14577, 2717, 143>>, e |-> -52] ->
         [s |-> 0, m |-> <<6506, 17452, 2177, 224>>, e |-> -54]
      [] x = [s |-> 0, m |-> <<13102, 17452, 12131, 143>>, e |-> -52] ->
         [s |-> 0, m |-> <<27502, 5284, 1068, 223>>, e |-> -54]
      [] x = [s |-> 0, m |-> <<1707, 22130, 19064, 143>>, e |-> -52] ->
         [s |-> 0, m |-> <<28195, 4048, 8863, 222>>, e |-> -54]
      [] x = [s |-> 0, m |-> <<10773, 22339, 19064, 143>>, e |-> -52] ->
         [s |-> 0, m |-> <<24558, 3294, 8863, 222>>, e |-> -54]
      [] x = [s |-> 0, m |-> <<23656, 11618, 19526, 143>>, e |-> -52] ->
         [s |-> 0, m |-> <<21658, 14975, 7199, 222>>, e |-> -54]
      [] x = [s |-> 0, m |-> <<16136, 24116, 21321, 143>>, e |-> -52] ->
         [s |-> 0, m |-> <<22289, 30814, 728, 222>>, e |-> -54]
      [] x = [s |-> 0, m |-> <<12829, 24325, 21321, 143>>, e |-> -52] ->
         [s |-> 0, m |-> <<24077, 30061, 728, 222>>, e |-> -54]
      [] x = [s |-> 0, m |-> <<24588, 31784, 21782, 143>>, e |-> -52] ->
         [s |-> 0, m |-> <<29633, 14662, 31834, 221>>, e |-> -54]
      [] x = [s |-> 0, m |-> <<16966, 31616, 24609, 143>>, e |-> -52] ->
         [s |-> 0, m |-> <<7152, 25473, 21642, 221>>, e |-> -54]
      [] x = [s |-> 0, m |-> <<28364, 31824, 24609, 143>>, e |-> -52] ->
         [s |-> 0, m |-> <<32001, 24721, 21642, 221>>, e |-> -54]
      [] x = [s |-> 0, m |-> <<12479, 17974, 25070, 143>>, e |-> -52] ->
         [s |-> 0, m |-> <<12921, 95, 19982, 221>>, e |-> -54]
      [] x = [s |-> 0, m |-> <<16395, 21613, 8053, 147>>, e |-> -52] ->
         [s |-> 0, m |-> <<29816, 25873, 32060, 208>>, e |-> -54]
      [] x = [s |-> 0, m |-> <<21182, 5033, 30645, 148>>, e |-> -52] ->
         [s |-> 0, m |-> <<5038, 8665, 25925, 202>>, e |-> -54]
      [] x = [s |-> 0, m |-> <<20142, 11130, 1656, 149>>, e |-> -52] ->
         [s |-> 0, m |-> <<13334, 3593, 12042, 202>>, e |-> -54]
      [] x = [s |-> 0, m |-> <<20143, 11130, 1656, 149>>, e |-> -52] ->
         [s |-> 0, m |-> <<13331, 3593, 12042, 202>>, e |-> -54]
      [] x = [s |-> 0, m |-> <<15140, 13668, 1656, 149>>, e |-> -52] ->
         [s |-> 0, m |-> <<19805, 27036, 12041, 202>>, e |-> -54]
      [] x = [s |-> 0, m |-> <<15914, 3380, 8069, 150>>, e |-> -52] ->
         [s |-> 0, m |-> <<32005, 5097, 31633, 197>>, e |-> -54]
      [] x = [s |-> 0, m |-> <<27920, 13090, 11780, 150>>, e |-> -52] ->
         [s |-> 0, m |-> <<20684, 32, 17940, 197>>, e |-> -54]
      [] x = [s |-> 0, m |-> <<28276, 15547, 11780, 150>>, e |-> -52] ->
         [s |-> 0, m |-> <<19479, 23733, 17939, 197>>, e |-> -54]
      [] x = [s |-> 0, m |-> <<28363, 1887, 5097, 152>>, e |-> -52] ->
         [s |-> 0, m |-> <<27925, 20317, 29503, 190>>, e |-> -54]
      [] x = [s |-> 0, m |-> <<18902, 25970, 8706, 152>>, e |-> -52] ->
         [s |-> 0, m |-> <<30815, 17925, 16103, 190>>, e |-> -54]
      [] x = [s |-> 0, m |-> <<20201, 28307, 8706, 152>>, e |-> -52] ->
         [s |-> 0, m |-> <<28653, 9248, 16103, 190>>, e |-> -54]
      [] x = [s |-> 0, m |-> <<13240, 29744, 16041, 154>>, e |-> -52] ->
         [s |-> 0, m |-> <<11456, 31121, 6759, 182>>, e |-> -54]
      [] x = [s |-> 0, m |-> <<8662, 23643, 27412, 154>>, e |-> -52] ->
         [s |-> 0, m |-> <<29228, 12289, 29768, 180>>, e |-> -54]
      [] x = [s |-> 0, m |-> <<26323, 9269, 27807, 154>>, e |-> -52] ->
         [s |-> 0, m |-> <<31969, 29696, 28291, 180>>, e |-> -54]
      [] x = [s |-> 0, m |-> <<11810, 9279, 27807, 154>>, e |-> -52] ->
         [s |-> 0, m |-> <<6941, 29661, 28291, 180>>, e |-> -54]
      [] x = [s |-> 0, m |-> <<28031, 4455, 30983, 154>>, e |-> -52] ->
         [s |-> 0, m |-> <<20540, 25975, 16405, 180>>, e |-> -54]
      [] x = [s |-> 0, m |-> <<32481, 31371, 31376, 154>>, e |-> -52] ->
         [s |-> 0, m |-> <<4062, 20305, 14931, 180>>, e |-> -54]
      [] x = [s |-> 0, m |-> <<16892, 31381, 31376, 154>>, e |-> -52] ->
         [s |-> 0, m |-> <<15454, 20269, 14931, 180>>, e |-> -54]
      [] x = [s |-> 0, m |-> <<16009, 7137, 4528, 155>>, e |-> -52] ->
         [s |-> 0, m |-> <<27502, 1950, 25536, 179>>, e |-> -54]
      [] x = [s |-> 0, m |-> <<13425, 23859, 4920, 155>>, e |-> -52] ->
         [s |-> 0, m |-> <<7882, 31556, 24065, 179>>, e |-> -54]
      [] x = [s |-> 0, m |-> <<28698, 23868, 4920, 155>>, e |-> -52] ->
         [s |-> 0, m |-> <<25752, 31520, 24065, 179>>, e |-> -54]
      [] x = [s |-> 0, m |-> <<14755, 6403, 27106, 155>>, e |-> -52] ->
         [s |-> 0, m |-> <<10914, 23300, 6425, 177>>, e |-> -54]
      [] x = [s |-> 0, m |-> <<28610, 2366, 28877, 156>>, e |-> -52] ->
         [s |-> 0, m |-> <<920, 14248, 7684, 173>>, e |-> -54]
      [] x = [s |-> 0, m |-> <<32329, 27941, 30663, 156>>, e |-> -52] ->
         [s |-> 0, m |-> <<739, 10792, 958, 173>>, e |-> -54]
      [] x = [s |-> 0, m |-> <<25094, 15649, 32112, 156>>, e |-> -52] ->
         [s |-> 0, m |-> <<12107, 13497, 28272, 172>>, e |-> -54]
      [] x = [s |-> 0, m |-> <<5698, 5233, 30837, 158>>, e |-> -52] ->
         [s |-> 0, m |-> <<20923, 16822, 15043, 165>>, e |-> -54]
      [] x = [s |-> 0, m |-> <<20484, 14736, 7513, 165>>, e |-> -52] ->
         [s |-> 0, m |-> <<5756, 31812, 15262, 141>>, e |-> -54]
      [] x = [s |-> 0, m |-> <<22521, 22099, 7661, 165>>, e |-> -52] ->
         [s |-> 0, m |-> <<14623, 4911, 14693, 141>>, e |-> -54]
      [] x = [s |-> 0, m |-> <<4393, 13004, 8713, 165>>, e |-> -52] ->
         [s |-> 0, m |-> <<6163, 27592, 10649, 141>>, e |-> -54]
      [] x = [s |-> 0, m |-> <<7759, 19950, 8719, 165>>, e |-> -52] ->
         [s |-> 0, m |-> <<21025, 31439, 10625, 141>>, e |-> -54]
      [] x = [s |-> 0, m |-> <<14923, 13262, 8720, 165>>, e |-> -52] ->
         [s |-> 0, m |-> <<18096, 29475, 10622, 141>>, e |-> -54]
      [] x = [s |-> 0, m |-> <<2751, 18496, 8721, 165>>, e |-> -52] ->
         [s |-> 0, m |-> <<11915, 14446, 10618, 141>>, e |-> -54]
      [] x = [s |-> 0, m |-> <<8415, 6893, 5723, 167>>, e |-> -52] ->
         [s |-> 0, m |-> <<5298, 4995, 31824, 133>>, e |-> -54]
      [] x = [s |-> 0, m |-> <<4911, 6011, 9796, 169>>, e |-> -52] ->
         [s |-> 0, m |-> <<8792, 26838, 16513, 251>>, e |-> -55]
      [] x = [s |-> 0, m |-> <<16076, 19767, 22284, 169>>, e |-> -52] ->
         [s |-> 0, m |-> <<2033, 11327, 17934, 248>>, e |-> -55]
      [] x = [s |-> 0, m |-> <<9291, 3294, 4847, 171>>, e |-> -52] ->
         [s |-> 0, m |-> <<23218, 25577, 4573, 237>>, e |-> -55]
      [] x = [s |-> 0, m |-> <<5111, 23311, 4852, 171>>, e |-> -52] ->
         [s |-> 0, m |-> <<32510, 3730, 4530, 237>>, e |-> -55]
      [] x = [s |-> 0, m |-> <<22310, 18418, 4856, 171>>, e |-> -52] ->
         [s |-> 0, m |-> <<13586, 4775, 4500, 237>>, e |-> -55]
      [] x = [s |-> 0, m |-> <<5842, 20200, 4886, 171>>, e |-> -52] ->
         [s |-> 0, m |-> <<102, 8080, 4266, 237>>, e |-> -55]
      [] x = [s |-> 0, m |-> <<23695, 15103, 7372, 171>>, e |-> -52] ->
         [s |-> 0, m |-> <<23191, 22801, 17686, 236>>, e |-> -55]
      [] x = [s |-> 0, m |-> <<30361, 32366, 9974, 171>>, e |-> -52] ->
         [s |-> 0, m |-> <<6738, 2577, 30196, 235>>, e |-> -55]
      [] x = [s |-> 0, m |-> <<3334, 3878, 10692, 171>>, e |-> -52] ->
         [s |-> 0, m |-> <<27077, 8507, 24613, 235>>, e |-> -55]
      [] x = [s |-> 0, m |-> <<24245, 21786, 15110, 175>>, e |-> -52] ->
         [s |-> 0, m |-> <<19434, 7938, 14535, 203>>, e |-> -55]
      [] x = [s |-> 0, m |-> <<8603, 14122, 4554, 176>>, e |-> -52] ->
         [s |-> 0, m |-> <<30957, 23565, 4130, 198>>, e |-> -55]
      [] x = [s |-> 0, m |-> <<29945, 10150, 4585, 177>>, e |-> -52] ->
         [s |-> 0, m |-> <<31649, 832, 8646, 190>>, e |-> -55]
      [] x = [s |-> 0, m |-> <<18929, 2360, 4808, 177>>, e |-> -52] ->
         [s |-> 0, m |-> <<17698, 31153, 6894, 190>>, e |-> -55]
      [] x = [s |-> 0, m |-> <<25177, 2363, 4808, 177>>, e |-> -52] ->
         [s |-> 0, m |-> <<15038, 31128, 6894, 190>>, e |-> -55]
      [] x = [s |-> 0, m |-> <<444, 7747, 21363, 177>>, e |-> -52] ->
         [s |-> 0, m |-> <<7920, 11556, 7782, 186>>, e |-> -55]
      [] x = [s |-> 0, m |-> <<11053, 26448, 32487, 177>>, e |-> -52] ->
         [s |-> 0, m |-> <<1734, 22914, 18552, 183>>, e |-> -55]
      [] x = [s |-> 0, m |-> <<1533, 11283, 4964, 180>>, e |-> -52] ->
         [s |-> 0, m |-> <<27552, 31080, 17706, 166>>, e |-> -55]
      [] x = [s |-> 0, m |-> <<15254, 16795, 18713, 180>>, e |-> -52] ->
         [s |-> 0, m |-> <<26340, 30558, 7452, 163>>, e |-> -55]
      [] x = [s |-> 0, m |-> <<10836, 2528, 6566, 183>>, e |-> -52] ->
         [s |-> 0, m |-> <<13145, 26731, 14060, 142>>, e |-> -55]
      [] x = [s |-> 0, m |-> <<7242, 21589, 29413, 187>>, e |-> -52] ->
         [s |-> 0, m |-> <<1020, 23910, 8441, 210>>, e |-> -56]
      [] x = [s |-> 0, m |-> <<32328, 24057, 30187, 187>>, e |-> -52] ->
         [s |-> 0, m |-> <<1570, 27864, 28889, 209>>, e |-> -56]
      [] x = [s |-> 0, m |-> <<3328, 23087, 5849, 188>>, e |-> -52] ->
         [s |-> 0, m |-> <<7977, 22072, 25778, 205>>, e |-> -56]
      [] x = [s |-> 0, m |-> <<19990, 7525, 5976, 188>>, e |-> -52] ->
         [s |-> 0, m |-> <<26166, 16862, 23764, 205>>, e |-> -56]
      [] x = [s |-> 0, m |-> <<21326, 7526, 5976, 188>>, e |-> -52] ->
         [s |-> 0, m |-> <<7550, 16846, 23764, 205>>, e |-> -56]
      [] x = [s |-> 0, m |-> <<3265, 28599, 26937, 193>>, e |-> -52] ->
         [s |-> 0, m |-> <<6427, 2125, 18079, 231>>, e |-> -57]
      [] x = [s |-> 0, m |-> <<32689, 10577, 5471, 194>>, e |-> -52] ->
         [s |-> 0, m |-> <<20665, 29157, 17431, 220>>, e |-> -57]
      [] x = [s |-> 0, m |-> <<2832, 16287, 27652, 195>>, e |-> -52] ->
         [s |-> 0, m |-> <<1869, 28473, 30510, 166>>, e |-> -57]
      [] x = [s |-> 0, m |-> <<2257, 13166, 26305, 197>>, e |-> -52] ->
         [s |-> 0, m |-> <<32499, 1221, 18456, 208>>, e |-> -58]
      [] x = [s |-> 0, m |-> <<29319, 7501, 25383, 200>>, e |-> -52] ->
         [s |-> 0, m |-> <<2598, 28390, 3112, 147>>, e |-> -61]
      [] x = [s |-> 0, m |-> <<11544, 10376, 2029, 201>>, e |-> -52] ->
         [s |-> 0, m |-> <<23559, 26152, 6296, 141>>, e |-> -106]
      [] x = [s |-> 0, m |-> <<17480, 295, 9303, 203>>, e |-> -52] ->
         [s |-> 1, m |-> <<11169, 9232, 6530, 142>>, e |-> -58]
      [] x = [s |-> 0, m |-> <<12439, 11107, 17096, 203>>, e |-> -52] ->
         [s |-> 1, m |-> <<24834, 30134, 13699, 157>>, e |-> -58]
      [] x = [s |-> 0, m |-> <<27167, 6998, 23033, 203>>, e |-> -52] ->
         [s |-> 1, m |-> <<428, 14512, 368, 169>>, e |-> -58]
      [] x = [s |-> 0, m |-> <<14033, 24747, 31276, 203>>, e |-> -52] ->
         [s |-> 1, m |-> <<556, 25452, 3543, 185>>, e |-> -58]
      [] x = [s |-> 0, m |-> <<14664, 24747, 31276, 203>>, e |-> -52] ->
         [s |-> 1, m |-> <<8162, 25453, 3543, 185>>, e |-> -58]
      [] x = [s |-> 0, m |-> <<1711, 21766, 31281, 203>>, e |-> -52] ->
         [s |-> 1, m |-> <<7730, 28623, 3857, 185>>, e |-> -58]
      [] x = [s |-> 0, m |-> <<20888, 25843, 27361, 204>>, e |-> -52] ->
         [s |-> 1, m |-> <<27543, 11600, 14500, 241>>, e |-> -58]
      [] x = [s |-> 0, m |-> <<16544, 25810, 13276, 212>>, e |-> -52] ->
         [s |-> 1, m |-> <<17116, 14763, 8338, 181>>, e |-> -56]
      [] x = [s |-> 0, m |-> <<2348, 25811, 13276, 212>>, e |-> -52] ->
         [s |-> 1, m |-> <<18190, 14772, 8338, 181>>, e |-> -56]
      [] x = [s |-> 0, m |-> <<32645, 8274, 13370, 212>>, e |-> -52] ->
         [s |-> 1, m |-> <<4741, 608, 9828, 181>>, e |-> -56]
      [] x = [s |-> 0, m |-> <<10702, 18923, 13270, 213>>, e |-> -52] ->
         [s |-> 1, m |-> <<21987, 20407, 5995, 197>>, e |-> -56]
      [] x = [s |-> 0, m |-> <<31744, 1856, 26789, 213>>, e |-> -52] ->
         [s |-> 1, m |-> <<15198, 16185, 24644, 203>>, e |-> -56]
      [] x = [s |-> 0, m |-> <<24084, 17351, 30284, 218>>, e |-> -52] ->
         [s |-> 1, m |-> <<9059, 24196, 14250, 142>>, e |-> -55]
      [] x = [s |-> 0, m |-> <<19084, 16990, 32268, 219>>, e |-> -52] ->
         [s |-> 1, m |-> <<19584, 21413, 27256, 150>>, e |-> -55]
      [] x = [s |-> 0, m |-> <<20322, 19949, 32359, 219>>, e |-> -52] ->
         [s |-> 1, m |-> <<15814, 13962, 27977, 150>>, e |-> -55]
      [] x = [s |-> 0, m |-> <<29375, 30683, 237, 220>>, e |-> -52] ->
         [s |-> 1, m |-> <<23187, 18750, 323, 151>>, e |-> -55]
      [] x = [s |-> 0, m |-> <<14357, 24704, 241, 220>>, e |-> -52] ->
         [s |-> 1, m |-> <<10552, 25509, 353, 151>>, e |-> -55]
      [] x = [s |-> 0, m |-> <<27113, 7963, 242, 220>>, e |-> -52] ->
         [s |-> 1, m |-> <<17266, 21254, 357, 151>>, e |-> -55]
      [] x = [s |-> 0, m |-> <<13877, 31317, 242, 220>>, e |-> -52] ->
         [s |-> 1, m |-> <<18408, 9432, 363, 151>>, e |-> -55]
      [] x = [s |-> 0, m |-> <<13851, 312, 23338, 220>>, e |-> -52] ->
         [s |-> 1, m |-> <<27221, 21589, 19187, 156>>, e |-> -55]
      [] x = [s |-> 0, m |-> <<19209, 1487, 23338, 220>>, e |-> -52] ->
         [s |-> 1, m |-> <<18757, 30880, 19187, 156>>, e |-> -55]
      [] x = [s |-> 0, m |-> <<31590, 30470, 23963, 220>>, e |-> -52] ->
         [s |-> 1, m |-> <<10043, 2435, 24136, 156>>, e |-> -55]
      [] x = [s |-> 0, m |-> <<23496, 18801, 8436, 223>>, e |-> -52] ->
         [s |-> 1, m |-> <<3460, 11140, 22143, 176>>, e |-> -55]
      [] x = [s |-> 0, m |-> <<8316, 9977, 1509, 224>>, e |-> -52] ->
         [s |-> 1, m |-> <<17890, 27566, 29049, 182>>, e |-> -55]
      [] x = [s |-> 0, m |-> <<20718, 21574, 1845, 224>>, e |-> -52] ->
         [s |-> 1, m |-> <<6137, 12763, 31697, 182>>, e |-> -55]
      [] x = [s |-> 0, m |-> <<24677, 8000, 4232, 224>>, e |-> -52] ->
         [s |-> 1, m |-> <<419, 27962, 17713, 183>>, e |-> -55]
      [] x = [s |-> 0, m |-> <<1889, 11157, 4246, 224>>, e |-> -52] ->
         [s |-> 1, m |-> <<21875, 26136, 17824, 183>>, e |-> -55]
      [] x = [s |-> 0, m |-> <<23495, 4802, 4248, 224>>, e |-> -52] ->
         [s |-> 1, m |-> <<11187, 402, 17839, 183>>, e |-> -55]
      [] x = [s |-> 0, m |-> <<20807, 25500, 4250, 224>>, e |-> -52] ->
         [s |-> 1, m |-> <<3816, 23741, 17859, 183>>, e |-> -55]
      [] x = [s |-> 0, m |-> <<5679, 704, 14620, 224>>, e |-> -52] ->
         [s |-> 1, m |-> <<19602, 24635, 1147, 186>>, e |-> -55]
      [] x = [s |-> 0, m |-> <<20474, 19235, 11607, 226>>, e |-> -52] ->
         [s |-> 1, m |-> <<32026, 31576, 796, 201>>, e |-> -55]
      [] x = [s |-> 0, m |-> <<32419, 27061, 28675, 226>>, e |-> -52] ->
         [s |-> 1, m |-> <<21852, 31466, 3558, 205>>, e |-> -55]
      [] x = [s |-> 0, m |-> <<5855, 12306, 25516, 229>>, e |-> -52] ->
         [s |-> 1, m |-> <<28372, 29734, 26600, 227>>, e |-> -55]
      [] x = [s |-> 0, m |-> <<16523, 5886, 27022, 229>>, e |-> -52] ->
         [s |-> 1, m |-> <<1394, 31551, 5576, 228>>, e |-> -55]
      [] x = [s |-> 0, m |-> <<917, 29880, 30785, 229>>, e |-> -52] ->
         [s |-> 1, m |-> <<31479, 26733, 2158, 229>>, e |-> -55]
      [] x = [s |-> 0, m |-> <<18699, 24543, 31620, 229>>, e |-> -52] ->
         [s |-> 1, m |-> <<27321, 3847, 8668, 229>>, e |-> -55]
      [] x = [s |-> 0, m |-> <<29303, 6079, 4331, 230>>, e |-> -52] ->
         [s |-> 1, m |-> <<22396, 19376, 18608, 230>>, e |-> -55]
      [] x = [s |-> 0, m |-> <<2448, 20971, 4764, 230>>, e |-> -52] ->
         [s |-> 1, m |-> <<4852, 4611, 21987, 230>>, e |-> -55]
      [] x = [s |-> 0, m |-> <<9220, 9910, 4776, 230>>, e |-> -52] ->
         [s |-> 1, m |-> <<14382, 1385, 22078, 230>>, e |-> -55]
      [] x = [s |-> 0, m |-> <<29534, 9495, 4811, 230>>, e |-> -52] ->
         [s |-> 1, m |-> <<26907, 24464, 22350, 230>>, e |-> -55]
      [] x = [s |-> 0, m |-> <<31446, 25313, 4815, 230>>, e |-> -52] ->
         [s |-> 1, m |-> <<26293, 22498, 22385, 230>>, e |-> -55]
      [] x = [s |-> 0, m |-> <<5817, 26358, 4815, 230>>, e |-> -52] ->
         [s |-> 1, m |-> <<26583, 30637, 22385, 230>>, e |-> -55]
      [] x = [s |-> 0, m |-> <<18363, 28204, 4815, 230>>, e |-> -52] ->
         [s |-> 1, m |-> <<5965, 12261, 22386, 230>>, e |-> -55]
      [] x = [s |-> 0, m |-> <<8623, 9972, 4822, 230>>, e |-> -52] ->
         [s |-> 1, m |-> <<22590, 19590, 22436, 230>>, e |-> -55]
      [] x = [s |-> 0, m |-> <<15966, 17822, 4825, 230>>, e |-> -52] ->
         [s |-> 1, m |-> <<14528, 27794, 22461, 230>>, e |-> -55]
      [] x = [s |-> 0, m |-> <<25565, 21985, 4832, 230>>, e |-> -52] ->
         [s |-> 1, m |-> <<5946, 13074, 22517, 230>>, e |-> -55]
      [] x = [s |-> 0, m |-> <<11393, 29800, 27099, 232>>, e |-> -52] ->
         [s |-> 1, m |-> <<31507, 15511, 17052, 251>>, e |-> -55]
      [] x = [s |-> 0, m |-> <<18137, 4010, 27146, 232>>, e |-> -52] ->
         [s |-> 1, m |-> <<31182, 27872, 17410, 251>>, e |-> -55]
      [] x = [s |-> 0, m |-> <<26619, 931, 27238, 232>>, e |-> -52] ->
         [s |-> 1, m |-> <<14777, 18695, 18123, 251>>, e |-> -55]
      [] x = [s |-> 0, m |-> <<31642, 19052, 10062, 239>>, e |-> -52] ->
         [s |-> 1, m |-> <<31028, 14896, 23413, 150>>, e |-> -54]
      [] x = [s |-> 0, m |-> <<13710, 6482, 8540, 245>>, e |-> -52] ->
         [s |-> 1, m |-> <<16970, 19149, 9907, 173>>, e |-> -54]
      [] x = [s |-> 0, m |-> <<18828, 24922, 26646, 245>>, e |-> -52] ->
         [s |-> 1, m |-> <<6660, 20214, 12469, 175>>, e |-> -54]
      [] x = [s |-> 0, m |-> <<23186, 11013, 13492, 246>>, e |-> -52] ->
         [s |-> 1, m |-> <<7683, 19081, 20578, 177>>, e |-> -54]
      [] x = [s |-> 0, m |-> <<15144, 16376, 13492, 246>>, e |-> -52] ->
         [s |-> 1, m |-> <<31268, 6431, 20579, 177>>, e |-> -54]
      [] x = [s |-> 0, m |-> <<28784, 20056, 13492, 246>>, e |-> -52] ->
         [s |-> 1, m |-> <<8949, 20239, 20579, 177>>, e |-> -54]
      [] x = [s |-> 0, m |-> <<8016, 16014, 13493, 246>>, e |-> -52] ->
         [s |-> 1, m |-> <<10864, 29700, 20582, 177>>, e |-> -54]
      [] x = [s |-> 0, m |-> <<10759, 29714, 13641, 246>>, e |-> -52] ->
         [s |-> 1, m |-> <<9794, 23027, 21139, 177>>, e |-> -54]
      [] x = [s |-> 0, m |-> <<15828, 27005, 13662, 246>>, e |-> -52] ->
         [s |-> 1, m |-> <<6584, 5713, 21218, 177>>, e |-> -54]
      [] x = [s |-> 0, m |-> <<20661, 15407, 24025, 253>>, e |-> -52] ->
         [s |-> 1, m |-> <<29243, 19300, 25867, 204>>, e |-> -54]
      [] x = [s |-> 0, m |-> <<31309, 17187, 24030, 253>>, e |-> -52] ->
         [s |-> 1, m |-> <<27850, 3888, 25886, 204>>, e |-> -54]
      [] x = [s |-> 0, m |-> <<28877, 32547, 24033, 253>>, e |-> -52] ->
         [s |-> 1, m |-> <<16129, 27375, 25898, 204>>, e |-> -54]
      [] x = [s |-> 0, m |-> <<2932, 2182, 24061, 253>>, e |-> -52] ->
         [s |-> 1, m |-> <<14201, 2902, 25998, 204>>, e |-> -54]
      [] x = [s |-> 0, m |-> <<9483, 23865, 28644, 253>>, e |-> -52] ->
         [s |-> 1, m |-> <<30372, 5328, 10030, 205>>, e |-> -54]
      [] x = [s |-> 0, m |-> <<21202, 23840, 29290, 253>>, e |-> -52] ->
         [s |-> 1, m |-> <<16, 7825, 12397, 205>>, e |-> -54]
      [] x = [s |-> 0, m |-> <<32441, 12053, 7220, 254>>, e |-> -52] ->
         [s |-> 1, m |-> <<30658, 12250, 18804, 206>>, e |-> -54]
      [] x = [s |-> 0, m |-> <<22411, 13105, 7220, 254>>, e |-> -52] ->
         [s |-> 1, m |-> <<3781, 16100, 18804, 206>>, e |-> -54]
      [] x = [s |-> 0, m |-> <<14851, 13827, 7220, 254>>, e |-> -52] ->
         [s |-> 1, m |-> <<25470, 18741, 18804, 206>>, e |-> -54]
      [] x = [s |-> 0, m |-> <<26442, 19460, 7220, 254>>, e |-> -52] ->
         [s |-> 1, m |-> <<24410, 6591, 18805, 206>>, e |-> -54]
      [] x = [s |-> 0, m |-> <<29382, 22946, 7249, 254>>, e |-> -52] ->
         [s |-> 1, m |-> <<28310, 23914, 18911, 206>>, e |-> -54]
      [] x = [s |-> 0, m |-> <<32011, 26292, 7253, 254>>, e |-> -52] ->
         [s |-> 1, m |-> <<28453, 24360, 18926, 206>>, e |-> -54]
      [] x = [s |-> 0, m |-> <<27022, 6396, 11230, 129>>, e |-> -51] ->
         [s |-> 1, m |-> <<29415, 31404, 25788, 222>>, e |-> -54]
      [] x = [s |-> 0, m |-> <<23539, 10779, 12159, 129>>, e |-> -51] ->
         [s |-> 1, m |-> <<20050, 24058, 32480, 222>>, e |-> -54]
      [] x = [s |-> 0, m |-> <<5772, 21572, 17398, 132>>, e |-> -51] ->
         [s |-> 1, m |-> <<1519, 26774, 15265, 245>>, e |-> -54]
      [] x = [s |-> 0, m |-> <<13882, 24601, 29853, 132>>, e |-> -51] ->
         [s |-> 1, m |-> <<4581, 13886, 4262, 248>>, e |-> -54]
      [] x = [s |-> 0, m |-> <<29632, 7534, 18193, 138>>, e |-> -51] ->
         [s |-> 1, m |-> <<14225, 25086, 10010, 143>>, e |-> -53]
      [] x = [s |-> 0, m |-> <<3955, 20937, 24674, 142>>, e |-> -51] ->
         [s |-> 1, m |-> <<4279, 19427, 29529, 156>>, e |-> -53]
      [] x = [s |-> 0, m |-> <<2303, 22268, 24674, 142>>, e |-> -51] ->
         [s |-> 1, m |-> <<26392, 23633, 29529, 156>>, e |-> -53]
      [] x = [s |-> 0, m |-> <<27988, 29095, 26850, 142>>, e |-> -51] ->
         [s |-> 1, m |-> <<12302, 6540, 3637, 157>>, e |-> -53]
      [] x = [s |-> 0, m |-> <<7935, 176, 26793, 145>>, e |-> -51] ->
         [s |-> 1, m |-> <<23475, 18618, 13235, 166>>, e |-> -53]
      [] x = [s |-> 0, m |-> <<16284, 20855, 6719, 147>>, e |-> -51] ->
         [s |-> 1, m |-> <<4515, 19720, 19063, 170>>, e |-> -53]
      [] x = [s |-> 0, m |-> <<20028, 22862, 6719, 147>>, e |-> -51] ->
         [s |-> 1, m |-> <<18889, 25706, 19063, 170>>, e |-> -53]
      [] x = [s |-> 0, m |-> <<2554, 24240, 6719, 147>>, e |-> -51] ->
         [s |-> 1, m |-> <<725, 29815, 19063, 170>>, e |-> -53]
      [] x = [s |-> 0, m |-> <<3272, 2223, 6720, 147>>, e |-> -51] ->
         [s |-> 1, m |-> <<4004, 29113, 19064, 170>>, e |-> -53]
      [] x = [s |-> 0, m |-> <<27516, 20190, 6775, 147>>, e |-> -51] ->
         [s |-> 1, m |-> <<12511, 18529, 19230, 170>>, e |-> -53]
      [] x = [s |-> 0, m |-> <<5520, 14578, 6783, 147>>, e |-> -51] ->
         [s |-> 1, m |-> <<23544, 29978, 19253, 170>>, e |-> -53]
      [] x = [s |-> 0, m |-> <<17765, 31237, 25702, 149>>, e |-> -51] ->
         [s |-> 1, m |-> <<27780, 21624, 4400, 178>>, e |-> -53]
      [] x = [s |-> 0, m |-> <<17788, 31237, 25702, 149>>, e |-> -51] ->
         [s |-> 1, m |-> <<27846, 21624, 4400, 178>>, e |-> -53]
      [] x = [s |-> 0, m |-> <<19225, 3890, 25704, 149>>, e |-> -51] ->
         [s |-> 1, m |-> <<8234, 262, 4404, 178>>, e |-> -53]
      [] x = [s |-> 0, m |-> <<22105, 678, 1757, 150>>, e |-> -51] ->
         [s |-> 1, m |-> <<9147, 31478, 29692, 178>>, e |-> -53]
      [] x = [s |-> 0, m |-> <<5726, 25293, 9624, 150>>, e |-> -51] ->
         [s |-> 1, m |-> <<9399, 26071, 19393, 179>>, e |-> -53]
      [] x = [s |-> 0, m |-> <<23969, 25302, 9624, 150>>, e |-> -51] ->
         [s |-> 1, m |-> <<17329, 26098, 19393, 179>>, e |-> -53]
      [] x = [s |-> 0, m |-> <<10056, 11160, 9679, 150>>, e |-> -51] ->
         [s |-> 1, m |-> <<12981, 11299, 19549, 179>>, e |-> -53]
      [] x = [s |-> 0, m |-> <<26632, 24041, 603, 151>>, e |-> -51] ->
         [s |-> 1, m |-> <<8044, 4695, 21171, 181>>, e |-> -53]
      [] x = [s |-> 0, m |-> <<21322, 12538, 24584, 153>>, e |-> -51] ->
         [s |-> 1, m |-> <<29500, 18243, 5840, 189>>, e |-> -53]
      [] x = [s |-> 0, m |-> <<6566, 30527, 17255, 155>>, e |-> -51] ->
         [s |-> 1, m |-> <<10034, 17268, 29225, 193>>, e |-> -53]
      [] x = [s |-> 0, m |-> <<27943, 23051, 1004, 156>>, e |-> -51] ->
         [s |-> 1, m |-> <<8915, 12063, 6631, 195>>, e |-> -53]
      [] x = [s |-> 0, m |-> <<27568, 6778, 1020, 156>>, e |-> -51] ->
         [s |-> 1, m |-> <<6045, 16034, 6671, 195>>, e |-> -53]
      [] x = [s |-> 0, m |-> <<9083, 307, 1028, 156>>, e |-> -51] ->
         [s |-> 1, m |-> <<211, 22324, 6691, 195>>, e |-> -53]
      [] x = [s |-> 0, m |-> <<6940, 17313, 29011, 157>>, e |-> -51] ->
         [s |-> 1, m |-> <<27047, 11495, 30131, 199>>, e |-> -53]
      [] x = [s |-> 0, m |-> <<18707, 17598, 1042, 159>>, e |-> -51] ->
         [s |-> 1, m |-> <<555, 14108, 24630, 202>>, e |-> -53]
      [] x = [s |-> 0, m |-> <<22123, 22706, 3082, 159>>, e |-> -51] ->
         [s |-> 1, m |-> <<29712, 17457, 29609, 202>>, e |-> -53]
      [] x = [s |-> 0, m |-> <<28990, 23747, 3082, 159>>, e |-> -51] ->
         [s |-> 1, m |-> <<13938, 19997, 29609, 202>>, e |-> -53]
      [] x = [s |-> 0, m |-> <<21794, 7862, 5283, 159>>, e |-> -51] ->
         [s |-> 1, m |-> <<30192, 774, 2205, 203>>, e |-> -53]
      [] x = [s |-> 0, m |-> <<25495, 7950, 17711, 160>>, e |-> -51] ->
         [s |-> 1, m |-> <<32133, 10295, 12430, 206>>, e |-> -53]
      [] x = [s |-> 0, m |-> <<15920, 8072, 16886, 161>>, e |-> -51] ->
         [s |-> 1, m |-> <<13443, 23196, 21707, 208>>, e |-> -53]
      [] x = [s |-> 0, m |-> <<15278, 6007, 28044, 167>>, e |-> -51] ->
         [s |-> 1, m |-> <<5248, 21198, 10107, 222>>, e |-> -53]
      [] x = [s |-> 0, m |-> <<620, 6102, 14195, 168>>, e |-> -51] ->
         [s |-> 1, m |-> <<7402, 24757, 14568, 223>>, e |-> -53]
      [] x = [s |-> 0, m |-> <<15472, 10808, 23910, 169>>, e |-> -51] ->
         [s |-> 1, m |-> <<18444, 29637, 30455, 225>>, e |-> -53]
      [] x = [s |-> 0, m |-> <<32537, 3342, 4497, 172>>, e |-> -51] ->
         [s |-> 1, m |-> <<1043, 22318, 9734, 230>>, e |-> -53]
      [] x = [s |-> 0, m |-> <<7874, 3343, 4497, 172>>, e |-> -51] ->
         [s |-> 1, m |-> <<15201, 22318, 9734, 230>>, e |-> -53]
      [] x = [s |-> 0, m |-> <<17776, 17736, 4517, 172>>, e |-> -51] ->
         [s |-> 1, m |-> <<24334, 12634, 9770, 230>>, e |-> -53]
      [] x = [s |-> 0, m |-> <<19588, 30526, 5764, 173>>, e |-> -51] ->
         [s |-> 1, m |-> <<14546, 20266, 2658, 232>>, e |-> -53]
      [] x = [s |-> 0, m |-> <<14456, 23768, 3589, 175>>, e |-> -51] ->
         [s |-> 1, m |-> <<15685, 15401, 7836, 235>>, e |-> -53]
      [] x = [s |-> 0, m |-> <<1921, 31710, 7391, 175>>, e |-> -51] ->
         [s |-> 1, m |-> <<25698, 16002, 13823, 235>>, e |-> -53]
      [] x = [s |-> 0, m |-> <<25758, 2407, 21287, 178>>, e |-> -51] ->
         [s |-> 1, m |-> <<2512, 16317, 15156, 240>>, e |-> -53]
      [] x = [s |-> 0, m |-> <<25896, 2407, 21287, 178>>, e |-> -51] ->
         [s |-> 1, m |-> <<2702, 16317, 15156, 240>>, e |-> -53]
      [] x = [s |-> 0, m |-> <<1598, 27387, 21288, 178>>, e |-> -51] ->
         [s |-> 1, m |-> <<10634, 30028, 15158, 240>>, e |-> -53]
      [] x = [s |-> 0, m |-> <<12525, 15180, 27826, 178>>, e |-> -51] ->
         [s |-> 1, m |-> <<14239, 8780, 24092, 240>>, e |-> -53]
      [] x = [s |-> 0, m |-> <<6999, 24160, 3588, 179>>, e |-> -51] ->
         [s |-> 1, m |-> <<28823, 6282, 2865, 241>>, e |-> -53]
      [] x = [s |-> 0, m |-> <<7000, 24160, 3588, 179>>, e |-> -51] ->
         [s |-> 1, m |-> <<28824, 6282, 2865, 241>>, e |-> -53]
      [] x = [s |-> 0, m |-> <<300, 31613, 3588, 179>>, e |-> -51] ->
         [s |-> 1, m |-> <<31836, 16308, 2865, 241>>, e |-> -53]
      [] x = [s |-> 0, m |-> <<5969, 14202, 9351, 179>>, e |-> -51] ->
         [s |-> 1, m |-> <<25218, 26012, 10587, 241>>, e |-> -53]
      [] x = [s |-> 0, m |-> <<23943, 19781, 10952, 179>>, e |-> -51] ->
         [s |-> 1, m |-> <<17185, 30419, 12722, 241>>, e |-> -53]
      [] x = [s |-> 0, m |-> <<6493, 23973, 4080, 181>>, e |-> -51] ->
         [s |-> 1, m |-> <<15557, 13697, 22225, 243>>, e |-> -53]
      [] x = [s |-> 0, m |-> <<26291, 28365, 27160, 182>>, e |-> -51] ->
         [s |-> 1, m |-> <<4160, 20890, 22321, 245>>, e |-> -53]
      [] x = [s |-> 0, m |-> <<6728, 123, 27161, 182>>, e |-> -51] ->
         [s |-> 1, m |-> <<21034, 25977, 22321, 245>>, e |-> -53]
      [] x = [s |-> 0, m |-> <<28148, 10179, 32077, 182>>, e |-> -51] ->
         [s |-> 1, m |-> <<2540, 20968, 27826, 245>>, e |-> -53]
      [] x = [s |-> 0, m |-> <<9456, 3011, 23527, 184>>, e |-> -51] ->
         [s |-> 1, m |-> <<23851, 32279, 22859, 247>>, e |-> -53]
      [] x = [s |-> 0, m |-> <<9458, 7654, 3956, 186>>, e |-> -51] ->
         [s |-> 1, m |-> <<19161, 9990, 1815, 249>>, e |-> -53]
      [] x = [s |-> 0, m |-> <<11483, 11552, 3956, 186>>, e |-> -51] ->
         [s |-> 1, m |-> <<23439, 13597, 1815, 249>>, e |-> -53]
      [] x = [s |-> 0, m |-> <<7688, 9855, 6039, 186>>, e |-> -51] ->
         [s |-> 1, m |-> <<29430, 28726, 3738, 249>>, e |-> -53]
      [] x = [s |-> 0, m |-> <<3855, 20444, 7843, 188>>, e |-> -51] ->
         [s |-> 1, m |-> <<13495, 10662, 28806, 250>>, e |-> -53]
      [] x = [s |-> 0, m |-> <<2535, 22123, 7843, 188>>, e |-> -51] ->
         [s |-> 1, m |-> <<31561, 11998, 28806, 250>>, e |-> -53]
      [] x = [s |-> 0, m |-> <<2560, 26924, 11405, 188>>, e |-> -51] ->
         [s |-> 1, m |-> <<27126, 6067, 31630, 250>>, e |-> -53]
      [] x = [s |-> 0, m |-> <<14544, 7979, 29223, 189>>, e |-> -51] ->
         [s |-> 1, m |-> <<7191, 6402, 3630, 252>>, e |-> -53]
      [] x = [s |-> 0, m |-> <<29185, 13925, 2438, 190>>, e |-> -51] ->
         [s |-> 1, m |-> <<29808, 14502, 7752, 252>>, e |-> -53]
      [] x = [s |-> 0, m |-> <<6912, 27817, 5288, 190>>, e |-> -51] ->
         [s |-> 1, m |-> <<2174, 21239, 9692, 252>>, e |-> -53]
      [] x = [s |-> 0, m |-> <<19352, 30610, 9532, 191>>, e |-> -51] ->
         [s |-> 1, m |-> <<24056, 26662, 729, 253>>, e |-> -53]
      [] x = [s |-> 0, m |-> <<24519, 11998, 28959, 192>>, e |-> -51] ->
         [s |-> 1, m |-> <<127, 21751, 29909, 253>>, e |-> -53]
      [] x = [s |-> 0, m |-> <<31215, 31117, 5608, 193>>, e |-> -51] ->
         [s |-> 1, m |-> <<12630, 10563, 1858, 254>>, e |-> -53]
      [] x = [s |-> 0, m |-> <<7478, 10666, 753, 194>>, e |-> -51] ->
         [s |-> 1, m |-> <<21543, 10607, 14851, 254>>, e |-> -53]
      [] x = [s |-> 0, m |-> <<19288, 4122, 4177, 195>>, e |-> -51] ->
         [s |-> 1, m |-> <<22064, 28213, 29498, 254>>, e |-> -53]
      [] x = [s |-> 0, m |-> <<30140, 4126, 4177, 195>>, e |-> -51] ->
         [s |-> 1, m |-> <<9093, 28215, 29498, 254>>, e |-> -53]
      [] x = [s |-> 0, m |-> <<13033, 2177, 4290, 195>>, e |-> -51] ->
         [s |-> 1, m |-> <<6783, 22248, 29540, 254>>, e |-> -53]
      [] x = [s |-> 0, m |-> <<13139, 25654, 7748, 196>>, e |-> -51] ->
         [s |-> 1, m |-> <<22182, 14085, 8935, 255>>, e |-> -53]
      [] x = [s |-> 0, m |-> <<13140, 25654, 7748, 196>>, e |-> -51] ->
         [s |-> 1, m |-> <<22182, 14085, 8935, 255>>, e |-> -53]
      [] x = [s |-> 0, m |-> <<20020, 29979, 7748, 196>>, e |-> -51] ->
         [s |-> 1, m |-> <<29005, 15388, 8935, 255>>, e |-> -53]
      [] x = [s |-> 0, m |-> <<26210, 20143, 14405, 196>>, e |-> -51] ->
         [s |-> 1, m |-> <<13995, 814, 10899, 255>>, e |-> -53]
      [] x = [s |-> 0, m |-> <<16991, 11959, 14970, 196>>, e |-> -51] ->
         [s |-> 1, m |-> <<11129, 24008, 11061, 255>>, e |-> -53]
      [] x = [s |-> 0, m |-> <<9093, 26983, 20815, 197>>, e |-> -51] ->
         [s |-> 1, m |-> <<8018, 30012, 20746, 255>>, e |-> -53]
      [] x = [s |-> 0, m |-> <<23306, 102, 22032, 198>>, e |-> -51] ->
         [s |-> 1, m |-> <<9505, 20012, 26921, 255>>, e |-> -53]
      [] x = [s |-> 0, m |-> <<14374, 31198, 4739, 199>>, e |-> -51] ->
         [s |-> 1, m |-> <<11507, 3400, 29004, 255>>, e |-> -53]
      [] x = [s |-> 0, m |-> <<27646, 13264, 22755, 199>>, e |-> -51] ->
         [s |-> 1, m |-> <<118, 5351, 30853, 255>>, e |-> -53]
      [] x = [s |-> 0, m |-> <<23995, 8602, 2029, 201>>, e |-> -51] ->
         [s |-> 1, m |-> <<32765, 32767, 32767, 255>>, e |-> -53]
      [] x = [s |-> 0, m |-> <<11544, 10376, 2029, 201>>, e |-> -51] ->
         [s |-> 1, m |-> <<0, 0, 0, 128>>, e |-> -52]
      [] x = [s |-> 0, m |-> <<21681, 13272, 2029, 201>>, e |-> -51] ->
         [s |-> 1, m |-> <<32760, 32767, 32767, 255>>, e |-> -53]
      [] x = [s |-> 0, m |-> <<17190, 13614, 2029, 201>>, e |-> -51] ->
         [s |-> 1, m |-> <<32758, 32767, 32767, 255>>, e |-> -53]
      [] x = [s |-> 0, m |-> <<6557, 1138, 10243, 206>>, e |-> -51] ->
         [s |-> 1, m |-> <<2162, 23090, 4552, 255>>, e |-> -53]
      [] x = [s |-> 0, m |-> <<5372, 7460, 13151, 208>>, e |-> -51] ->
         [s |-> 1, m |-> <<9422, 20381, 10436, 254>>, e |-> -53]
      [] x = [s |-> 0, m |-> <<30761, 26874, 5575, 216>>, e |-> -51] ->
         [s |-> 1, m |-> <<15539, 19728, 29490, 248>>, e |-> -53]
      [] x = [s |-> 0, m |-> <<13789, 9860, 15676, 218>>, e |-> -51] ->
         [s |-> 1, m |-> <<25203, 21026, 18978, 246>>, e |-> -53]
      [] x = [s |-> 0, m |-> <<3428, 32347, 23490, 219>>, e |-> -51] ->
         [s |-> 1, m |-> <<14981, 10766, 6604, 245>>, e |-> -53]
      [] x = [s |-> 0, m |-> <<16195, 32727, 23679, 219>>, e |-> -51] ->
         [s |-> 1, m |-> <<13991, 920, 6387, 245>>, e |-> -53]
      [] x = [s |-> 0, m |-> <<5545, 15170, 13177, 223>>, e |-> -51] ->
         [s |-> 1, m |-> <<11548, 1188, 18393, 240>>, e |-> -53]
      [] x = [s |-> 0, m |-> <<29745, 7414, 4129, 227>>, e |-> -51] ->
         [s |-> 1, m |-> <<31938, 32372, 2048, 235>>, e |-> -53]
      [] x = [s |-> 0, m |-> <<1643, 1339, 4652, 229>>, e |-> -51] ->
         [s |-> 1, m |-> <<22882, 7418, 24657, 231>>, e |-> -53]
      [] x = [s |-> 0, m |-> <<30484, 22708, 28117, 233>>, e |-> -51] ->
         [s |-> 1, m |-> <<16798, 1490, 3834, 223>>, e |-> -53]
      [] x = [s |-> 0, m |-> <<30161, 31827, 9137, 245>>, e |-> -51] ->
         [s |-> 1, m |-> <<10927, 12839, 9631, 197>>, e |-> -53]
      [] x = [s |-> 0, m |-> <<11548, 10948, 4155, 249>>, e |-> -51] ->
         [s |-> 1, m |-> <<32477, 7940, 4435, 187>>, e |-> -53]
      [] x = [s |-> 0, m |-> <<7142, 14064, 32104, 132>>, e |-> -50] ->
         [s |-> 1, m |-> <<7472, 30515, 9265, 135>>, e |-> -53]
      [] x = [s |-> 0, m |-> <<24875, 6858, 16011, 135>>, e |-> -50] ->
         [s |-> 1, m |-> <<24803, 24101, 22614, 235>>, e |-> -54]
      [] x = [s |-> 0, m |-> <<27979, 23088, 20914, 135>>, e |-> -50] ->
         [s |-> 1, m |-> <<29707, 18296, 18417, 233>>, e |-> -54]
      [] x = [s |-> 0, m |-> <<12519, 3984, 28886, 135>>, e |-> -50] ->
         [s |-> 1, m |-> <<26511, 19616, 3002, 230>>, e |-> -54]
      [] x = [s |-> 0, m |-> <<28322, 19474, 17472, 137>>, e |-> -50] ->
         [s |-> 1, m |-> <<5290, 25218, 6147, 206>>, e |-> -54]
      [] x = [s |-> 0, m |-> <<23005, 30545, 8559, 139>>, e |-> -50] ->
         [s |-> 1, m |-> <<3499, 28573, 19407, 180>>, e |-> -54]
      [] x = [s |-> 0, m |-> <<18766, 14076, 19905, 139>>, e |-> -50] ->
         [s |-> 1, m |-> <<25871, 25930, 13043, 175>>, e |-> -54]
      [] x = [s |-> 0, m |-> <<29280, 21198, 16580, 140>>, e |-> -50] ->
         [s |-> 1, m |-> <<9730, 8394, 27002, 161>>, e |-> -54]
      [] x = [s |-> 0, m |-> <<21814, 11540, 26796, 141>>, e |-> -50] ->
         [s |-> 1, m |-> <<31986, 24114, 25605, 141>>, e |-> -54]
      [] x = [s |-> 0, m |-> <<29457, 25882, 22799, 143>>, e |-> -50] ->
         [s |-> 1, m |-> <<16618, 7737, 11824, 225>>, e |-> -55]
      [] x = [s |-> 0, m |-> <<58, 26857, 4526, 146>>, e |-> -50] ->
         [s |-> 1, m |-> <<21351, 32026, 17683, 148>>, e |-> -55]
      [] x = [s |-> 0, m |-> <<26846, 2603, 21893, 147>>, e |-> -50] ->
         [s |-> 1, m |-> <<21457, 5518, 29293, 199>>, e |-> -56]
      [] x = [s |-> 0, m |-> <<8658, 32358, 26097, 150>>, e |-> -50] ->
         [s |-> 1, m |-> <<2570, 6461, 25829, 211>>, e |-> -105]
      [] x = [s |-> 0, m |-> <<22812, 4516, 27108, 152>>, e |-> -50] ->
         [s |-> 0, m |-> <<3097, 10023, 29023, 129>>, e |-> -56]
      [] x = [s |-> 0, m |-> <<16100, 16573, 19299, 153>>, e |-> -50] ->
         [s |-> 0, m |-> <<238, 29061, 16218, 178>>, e |-> -56]
      [] x = [s |-> 0, m |-> <<11065, 6417, 9352, 154>>, e |-> -50] ->
         [s |-> 0, m |-> <<7515, 11252, 27893, 222>>, e |-> -56]
      [] x = [s |-> 0, m |-> <<24890, 20222, 11985, 154>>, e |-> -50] ->
         [s |-> 0, m |-> <<13743, 11062, 31568, 227>>, e |-> -56]
      [] x = [s |-> 0, m |-> <<1125, 29302, 11736, 155>>, e |-> -50] ->
         [s |-> 0, m |-> <<1526, 19255, 15780, 145>>, e |-> -55]
      [] x = [s |-> 0, m |-> <<30948, 31383, 7489, 156>>, e |-> -50] ->
         [s |-> 0, m |-> <<14098, 1742, 32586, 172>>, e |-> -55]
      [] x = [s |-> 0, m |-> <<22198, 17126, 3393, 157>>, e |-> -50] ->
         [s |-> 0, m |-> <<14629, 25822, 17152, 200>>, e |-> -55]
      [] x = [s |-> 0, m |-> <<11841, 12908, 16115, 157>>, e |-> -50] ->
         [s |-> 0, m |-> <<9780, 15303, 22661, 212>>, e |-> -55]
      [] x = [s |-> 0, m |-> <<28632, 12424, 15261, 160>>, e |-> -50] ->
         [s |-> 0, m |-> <<30067, 18145, 11965, 152>>, e |-> -54]
      [] x = [s |-> 0, m |-> <<29410, 13142, 28488, 161>>, e |-> -50] ->
         [s |-> 0, m |-> <<7160, 28315, 21388, 173>>, e |-> -54]
      [] x = [s |-> 0, m |-> <<13538, 19325, 10866, 162>>, e |-> -50] ->
         [s |-> 0, m |-> <<24883, 3848, 19386, 180>>, e |-> -54]
      [] x = [s |-> 0, m |-> <<13297, 23201, 645, 163>>, e |-> -50] ->
         [s |-> 0, m |-> <<1886, 7683, 27880, 190>>, e |-> -54]
      [] x = [s |-> 0, m |-> <<1903, 6609, 28854, 163>>, e |-> -50] ->
         [s |-> 0, m |-> <<25799, 27631, 18390, 203>>, e |-> -54]
      [] x = [s |-> 0, m |-> <<22017, 21412, 31541, 163>>, e |-> -50] ->
         [s |-> 0, m |-> <<23336, 18910, 25055, 204>>, e |-> -54]
      [] x = [s |-> 0, m |-> <<12863, 26375, 2758, 165>>, e |-> -50] ->
         [s |-> 0, m |-> <<20936, 29582, 2742, 221>>, e |-> -54]
      [] x = [s |-> 0, m |-> <<8211, 22013, 13821, 165>>, e |-> -50] ->
         [s |-> 0, m |-> <<31019, 9120, 30918, 225>>, e |-> -54]
      [] x = [s |-> 0, m |-> <<19902, 21835, 28031, 168>>, e |-> -50] ->
         [s |-> 0, m |-> <<2544, 14093, 30297, 136>>, e |-> -53]
      [] x = [s |-> 0, m |-> <<3924, 6886, 10266, 170>>, e |-> -50] ->
         [s |-> 0, m |-> <<6807, 8025, 20756, 146>>, e |-> -53]
      [] x = [s |-> 0, m |-> <<16840, 4104, 24450, 170>>, e |-> -50] ->
         [s |-> 0, m |-> <<13467, 25040, 15022, 149>>, e |-> -53]
      [] x = [s |-> 0, m |-> <<6737, 32513, 5041, 171>>, e |-> -50] ->
         [s |-> 0, m |-> <<832, 31373, 3091, 152>>, e |-> -53]
      [] x = [s |-> 0, m |-> <<20364, 23692, 18450, 173>>, e |-> -50] ->
         [s |-> 0, m |-> <<7022, 1080, 4985, 167>>, e |-> -53]
      [] x = [s |-> 0, m |-> <<31523, 17716, 25463, 173>>, e |-> -50] ->
         [s |-> 0, m |-> <<18298, 30256, 14586, 168>>, e |-> -53]
      [] x = [s |-> 0, m |-> <<16328, 4090, 22963, 174>>, e |-> -50] ->
         [s |-> 0, m |-> <<24832, 28714, 30760, 173>>, e |-> -53]
      [] x = [s |-> 0, m |-> <<10101, 21367, 30447, 175>>, e |-> -50] ->
         [s |-> 0, m |-> <<15307, 19710, 633, 181>>, e |-> -53]
      [] x = [s |-> 0, m |-> <<28745, 12971, 14592, 176>>, e |-> -50] ->
         [s |-> 0, m |-> <<27716, 27209, 29994, 183>>, e |-> -53]
      [] x = [s |-> 0, m |-> <<21800, 30075, 7183, 179>>, e |-> -50] ->
         [s |-> 0, m |-> <<13691, 4795, 21036, 198>>, e |-> -53]
      [] x = [s |-> 0, m |-> <<18173, 7663, 25194, 179>>, e |-> -50] ->
         [s |-> 0, m |-> <<29122, 28423, 12654, 201>>, e |-> -53]
      [] x = [s |-> 0, m |-> <<23018, 25461, 25309, 179>>, e |-> -50] ->
         [s |-> 0, m |-> <<15989, 16381, 13225, 201>>, e |-> -53]
      [] x = [s |-> 0, m |-> <<8813, 29141, 25367, 179>>, e |-> -50] ->
         [s |-> 0, m |-> <<30077, 15353, 13512, 201>>, e |-> -53]
      [] x = [s |-> 0, m |-> <<17918, 5456, 26954, 180>>, e |-> -50] ->
         [s |-> 0, m |-> <<6763, 23187, 15741, 206>>, e |-> -53]
      [] x = [s |-> 0, m |-> <<24985, 22565, 16850, 181>>, e |-> -50] ->
         [s |-> 0, m |-> <<1861, 12843, 23033, 209>>, e |-> -53]
      [] x = [s |-> 0, m |-> <<375, 13693, 19274, 182>>, e |-> -50] ->
         [s |-> 0, m |-> <<4069, 21669, 16774, 214>>, e |-> -53]
      [] x = [s |-> 0, m |-> <<24362, 15028, 22620, 183>>, e |-> -50] ->
         [s |-> 0, m |-> <<13749, 22897, 6413, 219>>, e |-> -53]
      [] x = [s |-> 0, m |-> <<32427, 6780, 10052, 184>>, e |-> -50] ->
         [s |-> 0, m |-> <<19624, 20656, 23019, 221>>, e |-> -53]
      [] x = [s |-> 0, m |-> <<10837, 9306, 11256, 184>>, e |-> -50] ->
         [s |-> 0, m |-> <<22019, 4849, 27831, 221>>, e |-> -53]
      [] x = [s |-> 0, m |-> <<10334, 5078, 9132, 185>>, e |-> -50] ->
         [s |-> 0, m |-> <<10327, 8363, 15969, 225>>, e |-> -53]
      [] x = [s |-> 0, m |-> <<2472, 4210, 13847, 187>>, e |-> -50] ->
         [s |-> 0, m |-> <<9052, 29310, 3143, 233>>, e |-> -53]
      [] x = [s |-> 0, m |-> <<31798, 12389, 19176, 187>>, e |-> -50] ->
         [s |-> 0, m |-> <<32694, 26284, 20671, 233>>, e |-> -53]
      [] x = [s |-> 0, m |-> <<26752, 30352, 27134, 187>>, e |-> -50] ->
         [s |-> 0, m |-> <<15493, 5852, 13711, 234>>, e |-> -53]
      [] x = [s |-> 0, m |-> <<6417, 21054, 32646, 187>>, e |-> -50] ->
         [s |-> 0, m |-> <<24082, 29500, 31324, 234>>, e |-> -53]
      [] x = [s |-> 0, m |-> <<5104, 17760, 4761, 188>>, e |-> -50] ->
         [s |-> 0, m |-> <<6534, 14214, 13983, 235>>, e |-> -53]
      [] x = [s |-> 0, m |-> <<17036, 11229, 6480, 188>>, e |-> -50] ->
         [s |-> 0, m |-> <<9110, 27767, 19373, 235>>, e |-> -53]
      [] x = [s |-> 0, m |-> <<6126, 8057, 9809, 188>>, e |-> -50] ->
         [s |-> 0, m |-> <<7409, 25515, 29754, 235>>, e |-> -53]
      [] x = [s |-> 0, m |-> <<32748, 9935, 10196, 188>>, e |-> -50] ->
         [s |-> 0, m |-> <<27137, 24034, 30956, 235>>, e |-> -53]
      [] x = [s |-> 0, m |-> <<14809, 18744, 10604, 188>>, e |-> -50] ->
         [s |-> 0, m |-> <<9487, 13634, 32223, 235>>, e |-> -53]
      [] x = [s |-> 0, m |-> <<19040, 347, 12509, 188>>, e |-> -50] ->
         [s |-> 0, m |-> <<20816, 18983, 5348, 236>>, e |-> -53]
      [] x = [s |-> 0, m |-> <<22266, 5000, 31057, 188>>, e |-> -50] ->
         [s |-> 0, m |-> <<29604, 22771, 28638, 237>>, e |-> -53]
      [] x = [s |-> 0, m |-> <<26802, 31656, 31061, 188>>, e |-> -50] ->
         [s |-> 0, m |-> <<5481, 30374, 28652, 237>>, e |-> -53]
      [] x = [s |-> 0, m |-> <<15456, 13496, 14885, 189>>, e |-> -50] ->
         [s |-> 0, m |-> <<4603, 24415, 11194, 239>>, e |-> -53]
      [] x = [s |-> 0, m |-> <<4288, 5604, 24474, 189>>, e |-> -50] ->
         [s |-> 0, m |-> <<24756, 205, 5318, 240>>, e |-> -53]
      [] x = [s |-> 0, m |-> <<24228, 17169, 31802, 189>>, e |-> -50] ->
         [s |-> 0, m |-> <<11622, 16667, 25426, 240>>, e |-> -53]
      [] x = [s |-> 0, m |-> <<15230, 15760, 10799, 190>>, e |-> -50] ->
         [s |-> 0, m |-> <<24872, 13204, 24134, 241>>, e |-> -53]
      [] x = [s |-> 0, m |-> <<9747, 12560, 20141, 190>>, e |-> -50] ->
         [s |-> 0, m |-> <<21571, 19728, 15649, 242>>, e |-> -53]
      [] x = [s |-> 0, m |-> <<15767, 12032, 24765, 190>>, e |-> -50] ->
         [s |-> 0, m |-> <<5080, 29558, 27435, 242>>, e |-> -53]
      [] x = [s |-> 0, m |-> <<23005, 3015, 18485, 191>>, e |-> -50] ->
         [s |-> 0, m |-> <<28604, 387, 26427, 244>>, e |-> -53]
      [] x = [s |-> 0, m |-> <<21436, 458, 2792, 192>>, e |-> -50] ->
         [s |-> 0, m |-> <<15104, 21102, 32544, 245>>, e |-> -53]
      [] x = [s |-> 0, m |-> <<14160, 2904, 4101, 192>>, e |-> -50] ->
         [s |-> 0, m |-> <<5326, 25650, 2669, 246>>, e |-> -53]
      [] x = [s |-> 0, m |-> <<11596, 1790, 17884, 192>>, e |-> -50] ->
         [s |-> 0, m |-> <<15905, 13102, 32367, 246>>, e |-> -53]
      [] x = [s |-> 0, m |-> <<11597, 1790, 17884, 192>>, e |-> -50] ->
         [s |-> 0, m |-> <<15907, 13102, 32367, 246>>, e |-> -53]
      [] x = [s |-> 0, m |-> <<11621, 24841, 19115, 193>>, e |-> -50] ->
         [s |-> 0, m |-> <<9209, 32108, 1331, 249>>, e |-> -53]
      [] x = [s |-> 0, m |-> <<304, 2130, 22989, 193>>, e |-> -50] ->
         [s |-> 0, m |-> <<234, 7883, 8452, 249>>, e |-> -53]
      [] x = [s |-> 0, m |-> <<5455, 31111, 990, 194>>, e |-> -50] ->
         [s |-> 0, m |-> <<7963, 11732, 27664, 249>>, e |-> -53]
      [] x = [s |-> 0, m |-> <<8829, 10686, 13117, 194>>, e |-> -50] ->
         [s |-> 0, m |-> <<9156, 17042, 15494, 250>>, e |-> -53]
      [] x = [s |-> 0, m |-> <<20446, 1758, 22567, 194>>, e |-> -50] ->
         [s |-> 0, m |-> <<572, 7342, 30785, 250>>, e |-> -53]
      [] x = [s |-> 0, m |-> <<18720, 20726, 3548, 195>>, e |-> -50] ->
         [s |-> 0, m |-> <<20249, 15923, 19072, 251>>, e |-> -53]
      [] x = [s |-> 0, m |-> <<22071, 26856, 18933, 195>>, e |-> -50] ->
         [s |-> 0, m |-> <<13967, 28684, 8183, 252>>, e |-> -53]
      [] x = [s |-> 0, m |-> <<31423, 27380, 6349, 196>>, e |-> -50] ->
         [s |-> 0, m |-> <<28413, 16642, 1420, 253>>, e |-> -53]
      [] x = [s |-> 0, m |-> <<7079, 27972, 16106, 196>>, e |-> -50] ->
         [s |-> 0, m |-> <<19391, 9151, 12890, 253>>, e |-> -53]
      [] x = [s |-> 0, m |-> <<1360, 30386, 24859, 196>>, e |-> -50] ->
         [s |-> 0, m |-> <<11027, 4602, 22568, 253>>, e |-> -53]
      [] x = [s |-> 0, m |-> <<31084, 18658, 29014, 196>>, e |-> -50] ->
         [s |-> 0, m |-> <<25295, 1634, 26959, 253>>, e |-> -53]
      [] x = [s |-> 0, m |-> <<7634, 7116, 32707, 196>>, e |-> -50] ->
         [s |-> 0, m |-> <<31843, 3111, 30752, 253>>, e |-> -53]
      [] x = [s |-> 0, m |-> <<6924, 5589, 12973, 197>>, e |-> -50] ->
         [s |-> 0, m |-> <<3685, 5167, 10547, 254>>, e |-> -53]
      [] x = [s |-> 0, m |-> <<11748, 3915, 13033, 197>>, e |-> -50] ->
         [s |-> 0, m |-> <<7888, 31701, 10601, 254>>, e |-> -53]
      [] x = [s |-> 0, m |-> <<8543, 10317, 13152, 197>>, e |-> -50] ->
         [s |-> 0, m |-> <<22912, 28304, 10710, 254>>, e |-> -53]
      [] x = [s |-> 0, m |-> <<20946, 6884, 19386, 197>>, e |-> -50] ->
         [s |-> 0, m |-> <<30577, 32673, 16255, 254>>, e |-> -53]
      [] x = [s |-> 0, m |-> <<8020, 22686, 20179, 197>>, e |-> -50] ->
         [s |-> 0, m |-> <<7938, 21891, 16940, 254>>, e |-> -53]
      [] x = [s |-> 0, m |-> <<24123, 31046, 21638, 197>>, e |-> -50] ->
         [s |-> 0, m |-> <<26450, 11331, 18187, 254>>, e |-> -53]
      [] x = [s |-> 0, m |-> <<481, 7031, 22097, 197>>, e |-> -50] ->
         [s |-> 0, m |-> <<14604, 17093, 18575, 254>>, e |-> -53]
      [] x = [s |-> 0, m |-> <<3271, 18177, 27121, 197>>, e |-> -50] ->
         [s |-> 0, m |-> <<25752, 29075, 22726, 254>>, e |-> -53]
      [] x = [s |-> 0, m |-> <<24831, 10759, 1547, 198>>, e |-> -50] ->
         [s |-> 0, m |-> <<6443, 4845, 28337, 254>>, e |-> -53]
      [] x = [s |-> 0, m |-> <<18947, 7230, 1557, 198>>, e |-> -50] ->
         [s |-> 0, m |-> <<29511, 19400, 28344, 254>>, e |-> -53]
      [] x = [s |-> 0, m |-> <<21837, 2234, 2924, 198>>, e |-> -50] ->
         [s |-> 0, m |-> <<30338, 1065, 29366, 254>>, e |-> -53]
      [] x = [s |-> 0, m |-> <<2081, 3987, 7069, 198>>, e |-> -50] ->
         [s |-> 0, m |-> <<13687, 27217, 32376, 254>>, e |-> -53]
      [] x = [s |-> 0, m |-> <<2470, 30936, 9021, 198>>, e |-> -50] ->
         [s |-> 0, m |-> <<22689, 1246, 982, 255>>, e |-> -53]
      [] x = [s |-> 0, m |-> <<78, 4191, 14044, 198>>, e |-> -50] ->
         [s |-> 0, m |-> <<9928, 15089, 4380, 255>>, e |-> -53]
      [] x = [s |-> 0, m |-> <<5946, 28952, 17829, 198>>, e |-> -50] ->
         [s |-> 0, m |-> <<1250, 14706, 6815, 255>>, e |-> -53]
      [] x = [s |-> 0, m |-> <<1610, 20481, 18400, 199>>, e |-> -50] ->
         [s |-> 0, m |-> <<6716, 30446, 23548, 255>>, e |-> -53]
      [] x = [s |-> 0, m |-> <<29600, 11970, 18745, 199>>, e |-> -50] ->
         [s |-> 0, m |-> <<28944, 24244, 23677, 255>>, e |-> -53]
      [] x = [s |-> 0, m |-> <<20550, 31723, 19372, 199>>, e |-> -50] ->
         [s |-> 0, m |-> <<21747, 30003, 23909, 255>>, e |-> -53]
      [] x = [s |-> 0, m |-> <<19063, 32695, 24990, 199>>, e |-> -50] ->
         [s |-> 0, m |-> <<20252, 17497, 25854, 255>>, e |-> -53]
      [] x = [s |-> 0, m |-> <<14338, 16375, 30309, 199>>, e |-> -50] ->
         [s |-> 0, m |-> <<6404, 25324, 27473, 255>>, e |-> -53]
      [] x = [s |-> 0, m |-> <<552, 1576, 4393, 200>>, e |-> -50] ->
         [s |-> 0, m |-> <<11149, 28388, 29241, 255>>, e |-> -53]
      [] x = [s |-> 0, m |-> <<17198, 9907, 6282, 200>>, e |-> -50] ->
         [s |-> 0, m |-> <<10356, 14344, 29666, 255>>, e |-> -53]
      [] x = [s |-> 0, m |-> <<9391, 22759, 9044, 200>>, e |-> -50] ->
         [s |-> 0, m |-> <<22477, 7513, 30238, 255>>, e |-> -53]
      [] x = [s |-> 0, m |-> <<25841, 18037, 14776, 200>>, e |-> -50] ->
         [s |-> 0, m |-> <<8174, 32677, 31238, 255>>, e |-> -53]
      [] x = [s |-> 0, m |-> <<31774, 31335, 271, 201>>, e |-> -50] ->
         [s |-> 0, m |-> <<21613, 7176, 32756, 255>>, e |-> -53]
      [] x = [s |-> 0, m |-> <<6560, 24, 2024, 201>>, e |-> -50] ->
         [s |-> 0, m |-> <<15323, 32764, 32767, 255>>, e |-> -53]
      [] x = [s |-> 0, m |-> <<11545, 8840, 2029, 201>>, e |-> -50] ->
         [s |-> 0, m |-> <<32759, 32767, 32767, 255>>, e |-> -53]
      [] x = [s |-> 0, m |-> <<17770, 9489, 2029, 201>>, e |-> -50] ->
         [s |-> 0, m |-> <<32765, 32767, 32767, 255>>, e |-> -53]
      [] x = [s |-> 0, m |-> <<9010, 9652, 2029, 201>>, e |-> -50] ->
         [s |-> 0, m |-> <<32766, 32767, 32767, 255>>, e |-> -53]
      [] x = [s |-> 0, m |-> <<11544, 9864, 2029, 201>>, e |-> -50] ->
         [s |-> 0, m |-> <<32767, 32767, 32767, 255>>, e |-> -53]
      [] x = [s |-> 0, m |-> <<11543, 10376, 2029, 201>>, e |-> -50] ->
         [s |-> 0, m |-> <<0, 0, 0, 128>>, e |-> -52]
      [] x = [s |-> 0, m |-> <<11544, 10376, 2029, 201>>, e |-> -50] ->
         [s |-> 0, m |-> <<0, 0, 0, 128>>, e |-> -52]
      [] x = [s |-> 0, m |-> <<13266, 8753, 5829, 242>>, e |-> -46] ->
         [s |-> 1, m |-> <<20939, 1371, 16024, 140>>, e |-> -55]
      [] x = [s |-> 0, m |-> <<12230, 28863, 20814, 145>>, e |-> -45] ->
         [s |-> 0, m |-> <<32415, 4470, 5465, 222>>, e |-> -54]
      [] x = [s |-> 0, m |-> <<17121, 24011, 6751, 147>>, e |-> -45] ->
         [s |-> 1, m |-> <<15292, 1222, 21201, 230>>, e |-> -53]
      [] x = [s |-> 0, m |-> <<2956, 14944, 28386, 148>>, e |-> -45] ->
         [s |-> 1, m |-> <<24472, 17722, 1971, 180>>, e |-> -54]
      [] x = [s |-> 0, m |-> <<26570, 16198, 14846, 157>>, e |-> -45] ->
         [s |-> 0, m |-> <<6279, 26468, 11643, 238>>, e |-> -53]
      [] x = [s |-> 0, m |-> <<6519, 5616, 12517, 158>>, e |-> -45] ->
         [s |-> 0, m |-> <<29181, 13395, 26024, 135>>, e |-> -54]
      [] x = [s |-> 0, m |-> <<2425, 3419, 16417, 158>>, e |-> -45] ->
         [s |-> 0, m |-> <<3308, 1013, 14290, 152>>, e |-> -55]
      [] x = [s |-> 0, m |-> <<5061, 23523, 22099, 158>>, e |-> -45] ->
         [s |-> 1, m |-> <<27323, 12025, 19535, 196>>, e |-> -58]
      [] x = [s |-> 0, m |-> <<31461, 11346, 783, 159>>, e |-> -45] ->
         [s |-> 1, m |-> <<14706, 14208, 26399, 186>>, e |-> -54]
      [] x = [s |-> 0, m |-> <<11410, 764, 31222, 159>>, e |-> -45] ->
         [s |-> 1, m |-> <<12581, 7827, 27327, 246>>, e |-> -53]
      [] x = [s |-> 0, m |-> <<7316, 31335, 2353, 160>>, e |-> -45] ->
         [s |-> 1, m |-> <<440, 8212, 4874, 253>>, e |-> -53]
      [] x = [s |-> 0, m |-> <<9952, 18671, 8036, 160>>, e |-> -45] ->
         [s |-> 1, m |-> <<26805, 29132, 30345, 255>>, e |-> -53]
      [] x = [s |-> 0, m |-> <<17296, 2279, 22418, 160>>, e |-> -45] ->
         [s |-> 1, m |-> <<31370, 8736, 1855, 229>>, e |-> -53]
      [] x = [s |-> 0, m |-> <<30013, 24464, 20088, 161>>, e |-> -45] ->
         [s |-> 1, m |-> <<20454, 29465, 9181, 182>>, e |-> -55]
      [] x = [s |-> 0, m |-> <<25919, 22267, 23988, 161>>, e |-> -45] ->
         [s |-> 1, m |-> <<11537, 15796, 12738, 245>>, e |-> -57]
      [] x = [s |-> 0, m |-> <<28555, 9603, 29671, 161>>, e |-> -45] ->
         [s |-> 0, m |-> <<22250, 9260, 29394, 231>>, e |-> -56]
      [] x = [s |-> 0, m |-> <<23278, 18138, 17115, 145>>, e |-> -44] ->
         [s |-> 1, m |-> <<23006, 16459, 15421, 221>>, e |-> -54]
      [] x = [s |-> 0, m |-> <<26259, 26633, 10083, 146>>, e |-> -44] ->
         [s |-> 1, m |-> <<14762, 10629, 26499, 230>>, e |-> -53]
      [] x = [s |-> 0, m |-> <<11274, 6778, 21904, 147>>, e |-> -44] ->
         [s |-> 0, m |-> <<19564, 4606, 29661, 255>>, e |-> -53]
      [] x = [s |-> 0, m |-> <<6148, 4557, 14873, 148>>, e |-> -44] ->
         [s |-> 1, m |-> <<6127, 4909, 14372, 223>>, e |-> -58]
      [] x = [s |-> 0, m |-> <<4850, 5474, 11147, 157>>, e |-> -44] ->
         [s |-> 0, m |-> <<5001, 371, 694, 222>>, e |-> -53]
      [] x = [s |-> 0, m |-> <<7831, 13969, 4115, 158>>, e |-> -44] ->
         [s |-> 1, m |-> <<11010, 4469, 29553, 254>>, e |-> -54]
      [] x = [s |-> 0, m |-> <<17567, 27659, 8817, 158>>, e |-> -44] ->
         [s |-> 1, m |-> <<16783, 2047, 2894, 185>>, e |-> -53]
      [] x = [s |-> 0, m |-> <<13473, 25462, 12717, 158>>, e |-> -44] ->
         [s |-> 1, m |-> <<10421, 6323, 18705, 221>>, e |-> -53]
      [] x = [s |-> 0, m |-> <<16109, 12798, 18400, 158>>, e |-> -44] ->
         [s |-> 1, m |-> <<26022, 30160, 31613, 251>>, e |-> -53]
      [] x = [s |-> 0, m |-> <<20548, 3386, 1786, 159>>, e |-> -44] ->
         [s |-> 1, m |-> <<7837, 11672, 27951, 176>>, e |-> -53]
      [] x = [s |-> 0, m |-> <<16454, 1189, 5686, 159>>, e |-> -44] ->
         [s |-> 1, m |-> <<28943, 24186, 7316, 128>>, e |-> -53]
      [] x = [s |-> 0, m |-> <<19090, 21293, 11368, 159>>, e |-> -44] ->
         [s |-> 1, m |-> <<14225, 29952, 2496, 181>>, e |-> -55]
      [] x = [s |-> 0, m |-> <<25614, 26881, 15935, 159>>, e |-> -44] ->
         [s |-> 0, m |-> <<31487, 31387, 15664, 206>>, e |-> -56]
      [] x = [s |-> 0, m |-> <<20488, 24660, 8904, 160>>, e |-> -44] ->
         [s |-> 0, m |-> <<31929, 582, 22742, 254>>, e |-> -53]
      [] x = [s |-> 0, m |-> <<5563, 16299, 13606, 160>>, e |-> -44] ->
         [s |-> 0, m |-> <<23826, 8370, 31738, 236>>, e |-> -53]
      [] x = [s |-> 0, m |-> <<1469, 14102, 17506, 160>>, e |-> -44] ->
         [s |-> 0, m |-> <<13576, 25199, 14683, 207>>, e |-> -53]
      [] x = [s |-> 0, m |-> <<4105, 1438, 23189, 160>>, e |-> -44] ->
         [s |-> 0, m |-> <<28538, 9406, 3423, 144>>, e |-> -53]
      [] x = [s |-> 0, m |-> <<437, 14078, 6575, 161>>, e |-> -44] ->
         [s |-> 1, m |-> <<16878, 19418, 24557, 193>>, e |-> -54]
      [] x = [s |-> 0, m |-> <<29111, 11880, 10475, 161>>, e |-> -44] ->
         [s |-> 1, m |-> <<23144, 29278, 556, 150>>, e |-> -53]
      [] x = [s |-> 0, m |-> <<31747, 31984, 16157, 161>>, e |-> -44] ->
         [s |-> 1, m |-> <<23994, 25848, 19589, 211>>, e |-> -53]
      [] x = [s |-> 0, m |-> <<2054, 31633, 7439, 218>>, e |-> -44] ->
         [s |-> 1, m |-> <<5533, 12767, 13646, 249>>, e |-> -53]
      [] x = [s |-> 0, m |-> <<31162, 3570, 408, 219>>, e |-> -44] ->
         [s |-> 1, m |-> <<4637, 23182, 23671, 230>>, e |-> -55]
      [] x = [s |-> 0, m |-> <<7179, 12636, 31255, 235>>, e |-> -44] ->
         [s |-> 0, m |-> <<18331, 20997, 27926, 200>>, e |-> -53]
      [] x = [s |-> 0, m |-> <<3519, 17342, 24223, 236>>, e |-> -44] ->
         [s |-> 1, m |-> <<7876, 28776, 23920, 158>>, e |-> -53]
      [] x = [s |-> 0, m |-> <<9871, 13146, 11377, 237>>, e |-> -44] ->
         [s |-> 1, m |-> <<1069, 13437, 16008, 243>>, e |-> -53]
      [] x = [s |-> 0, m |-> <<20114, 9850, 17227, 237>>, e |-> -44] ->
         [s |-> 1, m |-> <<24412, 32410, 16462, 200>>, e |-> -53]
      [] x = [s |-> 0, m |-> <<24068, 7238, 25751, 237>>, e |-> -44] ->
         [s |-> 1, m |-> <<2075, 21030, 22961, 189>>, e |-> -54]
      [] x = [s |-> 0, m |-> <<6211, 17852, 4345, 238>>, e |-> -44] ->
         [s |-> 0, m |-> <<6147, 24539, 3665, 158>>, e |-> -54]
      [] x = [s |-> 0, m |-> <<16454, 14556, 10195, 238>>, e |-> -44] ->
         [s |-> 0, m |-> <<30133, 31601, 5625, 159>>, e |-> -53]
      [] x = [s |-> 0, m |-> <<20408, 11944, 18719, 238>>, e |-> -44] ->
         [s |-> 0, m |-> <<13549, 19852, 25605, 237>>, e |-> -53]

(* f64::tan, as libm returns it, on the arguments the specifications reach *)
f64_tan(x) ==
    CASE x = Zero ->
         Zero
      [] x = [s |-> 0, m |-> <<25655, 2948, 20461, 138>>, e |-> -59] ->
         [s |-> 0, m |-> <<2813, 15984, 20569, 138>>, e |-> -59]
      [] x = [s |-> 0, m |-> <<8076, 26274, 9297, 161>>, e |-> -59] ->
         [s |-> 0, m |-> <<19306, 17009, 9468, 161>>, e |-> -59]
      [] x = [s |-> 0, m |-> <<20467, 15916, 8374, 187>>, e |-> -59] ->
         [s |-> 0, m |-> <<8892, 22052, 8641, 187>>, e |-> -59]
      [] x = [s |-> 0, m |-> <<24064, 874, 2178, 185>>, e |-> -58] ->
         [s |-> 0, m |-> <<30293, 29046, 3209, 185>>, e |-> -58]
      [] x = [s |-> 0, m |-> <<13622, 29930, 22778, 244>>, e |-> -58] ->
         [s |-> 0, m |-> <<19021, 13639, 25164, 244>>, e |-> -58]
      [] x = [s |-> 0, m |-> <<550, 12196, 3164, 144>>, e |-> -57] ->
         [s |-> 0, m |-> <<14126, 8213, 5113, 144>>, e |-> -57]
      [] x = [s |-> 0, m |-> <<22070, 3440, 32705, 166>>, e |-> -57] ->
         [s |-> 0, m |-> <<19895, 7220, 2971, 167>>, e |-> -57]
      [] x = [s |-> 0, m |-> <<31684, 22965, 23391, 187>>, e |-> -57] ->
         [s |-> 0, m |-> <<24304, 18260, 27701, 187>>, e |-> -57]
      [] x = [s |-> 0, m |-> <<6912, 20797, 4405, 207>>, e |-> -57] ->
         [s |-> 0, m |-> <<25167, 12807, 10197, 207>>, e |-> -57]
      [] x = [s |-> 0, m |-> <<29482, 14328, 13259, 225>>, e |-> -57] ->
         [s |-> 0, m |-> <<18219, 10930, 20724, 225>>, e |-> -57]
      [] x = [s |-> 0, m |-> <<6720, 26340, 22091, 232>>, e |-> -57] ->
         [s |-> 0, m |-> <<31199, 4899, 30303, 232>>, e |-> -57]
      [] x = [s |-> 0, m |-> <<25335, 30182, 5699, 174>>, e |-> -56] ->
         [s |-> 0, m |-> <<22309, 27690, 19499, 174>>, e |-> -56]
      [] x = [s |-> 0, m |-> <<2810, 12067, 10635, 174>>, e |-> -56] ->
         [s |-> 0, m |-> <<26552, 6334, 24471, 174>>, e |-> -56]
      [] x = [s |-> 0, m |-> <<16867, 20278, 13117, 174>>, e |-> -56] ->
         [s |-> 0, m |-> <<12621, 17161, 26971, 174>>, e |-> -56]
      [] x = [s |-> 0, m |-> <<32751, 20294, 31059, 182>>, e |-> -56] ->
         [s |-> 0, m |-> <<24753, 21230, 14288, 183>>, e |-> -56]
      [] x = [s |-> 0, m |-> <<28926, 23159, 25086, 183>>, e |-> -56] ->
         [s |-> 0, m |-> <<10268, 21831, 8531, 184>>, e |-> -56]
      [] x = [s |-> 0, m |-> <<11080, 31795, 9880, 133>>, e |-> -55] ->
         [s |-> 0, m |-> <<8945, 2490, 1955, 134>>, e |-> -55]
      [] x = [s |-> 0, m |-> <<1327, 30563, 19227, 174>>, e |-> -54] ->
         [s |-> 0, m |-> <<3242, 656, 22403, 181>>, e |-> -54]
      [] x = [s |-> 0, m |-> <<12018, 29708, 19992, 192>>, e |-> -54] ->
         [s |-> 0, m |-> <<12523, 19007, 7923, 202>>, e |-> -54]
      [] x = [s |-> 0, m |-> <<26261, 1066, 21900, 192>>, e |-> -54] ->
         [s |-> 0, m |-> <<12524, 12112, 10128, 202>>, e |-> -54]
      [] x = [s |-> 0, m |-> <<5143, 7053, 22859, 192>>, e |-> -54] ->
         [s |-> 0, m |-> <<17479, 11014, 11237, 202>>, e |-> -54]
      [] x = [s |-> 0, m |-> <<29192, 6220, 29919, 193>>, e |-> -54] ->
         [s |-> 0, m |-> <<4927, 4157, 24561, 203>>, e |-> -54]
      [] x = [s |-> 0, m |-> <<7728, 8110, 15040, 226>>, e |-> -54] ->
         [s |-> 0, m |-> <<8721, 17992, 15777, 242>>, e |-> -54]
      [] x = [s |-> 0, m |-> <<30183, 26844, 25431, 226>>, e |-> -54] ->
         [s |-> 0, m |-> <<22031, 20336, 28503, 242>>, e |-> -54]
      [] x = [s |-> 0, m |-> <<17278, 1868, 3039, 227>>, e |-> -54] ->
         [s |-> 0, m |-> <<2703, 4960, 8449, 243>>, e |-> -54]
      [] x = [s |-> 0, m |-> <<14422, 912, 13398, 227>>, e |-> -54] ->
         [s |-> 0, m |-> <<27149, 6701, 21150, 243>>, e |-> -54]
      [] x = [s |-> 0, m |-> <<29541, 28762, 1352, 134>>, e |-> -53] ->
         [s |-> 0, m |-> <<13084, 2848, 26269, 147>>, e |-> -53]
      [] x = [s |-> 0, m |-> <<11544, 10376, 2029, 201>>, e |-> -53] ->
         [s |-> 0, m |-> <<32767, 32767, 32767, 255>>, e |-> -53]
      [] x = [s |-> 0, m |-> <<19674, 10769, 32123, 201>>, e |-> -53] ->
         [s |-> 0, m |-> <<31778, 16140, 30202, 128>>, e |-> -52]
      [] x = [s |-> 0, m |-> <<19379, 11510, 1816, 202>>, e |-> -53] ->
         [s |-> 0, m |-> <<28493, 1086, 32682, 128>>, e |-> -52]
      [] x = [s |-> 0, m |-> <<1203, 30706, 4275, 202>>, e |-> -53] ->
         [s |-> 0, m |-> <<1010, 19382, 2393, 129>>, e |-> -52]
      [] x = [s |-> 0, m |-> <<14617, 2874, 6734, 202>>, e |-> -53] ->
         [s |-> 0, m |-> <<27536, 5517, 4873, 129>>, e |-> -52]
      [] x = [s |-> 0, m |-> <<29541, 28762, 1352, 134>>, e |-> -52] ->
         [s |-> 0, m |-> <<19624, 20656, 23019, 221>>, e |-> -52]
      [] x = [s |-> 0, m |-> <<10242, 32453, 9949, 201>>, e |-> -52] ->
         [s |-> 1, m |-> <<30549, 20501, 12600, 132>>, e |-> -43]
      [] x = [s |-> 0, m |-> <<31686, 11092, 9952, 201>>, e |-> -52] ->
         [s |-> 1, m |-> <<22821, 32212, 11314, 132>>, e |-> -43]
      [] x = [s |-> 0, m |-> <<14155, 22523, 9954, 201>>, e |-> -52] ->
         [s |-> 1, m |-> <<24435, 23640, 10029, 132>>, e |-> -43]
      [] x = [s |-> 0, m |-> <<23407, 1208, 9957, 201>>, e |-> -52] ->
         [s |-> 1, m |-> <<12223, 27550, 8744, 132>>, e |-> -43]
      [] x = [s |-> 0, m |-> <<27947, 31401, 4065, 201>>, e |-> -51] ->
         [s |-> 0, m |-> <<29016, 26545, 19014, 254>>, e |-> -63]
      [] x = [s |-> 0, m |-> <<30208, 17342, 22022, 220>>, e |-> -51] ->
         [s |-> 0, m |-> <<30561, 25251, 32193, 161>>, e |-> -54]
      [] x = [s |-> 0, m |-> <<16100, 16573, 19299, 153>>, e |-> -50] ->
         [s |-> 1, m |-> <<23543, 8575, 28863, 182>>, e |-> -49]
      [] x = [s |-> 0, m |-> <<10101, 21367, 30447, 175>>, e |-> -50] ->
         [s |-> 1, m |-> <<2, 0, 0, 128>>, e |-> -52]
      [] x = [s |-> 0, m |-> <<18173, 7663, 25194, 179>>, e |-> -50] ->
         [s |-> 1, m |-> <<20845, 30187, 29840, 200>>, e |-> -53]
      [] x = [s |-> 0, m |-> <<23018, 25461, 25309, 179>>, e |-> -50] ->
         [s |-> 1, m |-> <<1281, 12455, 28347, 200>>, e |-> -53]
      [] x = [s |-> 0, m |-> <<8813, 29141, 25367, 179>>, e |-> -50] ->
         [s |-> 1, m |-> <<32688, 9927, 27596, 200>>, e |-> -53]
      [] x = [s |-> 0, m |-> <<32427, 6780, 10052, 184>>, e |-> -50] ->
         [s |-> 1, m |-> <<13091, 2848, 26269, 147>>, e |-> -53]
      [] x = [s |-> 0, m |-> <<1469, 31513, 3807, 187>>, e |-> -50] ->
         [s |-> 1, m |-> <<27584, 30899, 13766, 238>>, e |-> -54]
      [] x = [s |-> 0, m |-> <<6417, 21054, 32646, 187>>, e |-> -50] ->
         [s |-> 1, m |-> <<11026, 10285, 16310, 221>>, e |-> -54]
      [] x = [s |-> 0, m |-> <<22266, 5000, 31057, 188>>, e |-> -50] ->
         [s |-> 1, m |-> <<4655, 10179, 21266, 203>>, e |-> -54]
      [] x = [s |-> 0, m |-> <<11597, 1790, 17884, 192>>, e |-> -50] ->
         [s |-> 1, m |-> <<29941, 28388, 18647, 139>>, e |-> -54]
      [] x = [s |-> 0, m |-> <<6924, 5589, 12973, 197>>, e |-> -50] ->
         [s |-> 1, m |-> <<4276, 386, 21534, 235>>, e |-> -56]
      [] x = [s |-> 0, m |-> <<11748, 3915, 13033, 197>>, e |-> -50] ->
         [s |-> 1, m |-> <<32502, 16603, 17646, 235>>, e |-> -56]
      [] x = [s |-> 0, m |-> <<8543, 10317, 13152, 197>>, e |-> -50] ->
         [s |-> 1, m |-> <<6615, 6592, 9917, 235>>, e |-> -56]
      [] x = [s |-> 0, m |-> <<24831, 10759, 1547, 198>>, e |-> -50] ->
         [s |-> 1, m |-> <<14842, 11295, 16850, 193>>, e |-> -56]
      [] x = [s |-> 0, m |-> <<78, 4191, 14044, 198>>, e |-> -50] ->
         [s |-> 1, m |-> <<16889, 31715, 29983, 168>>, e |-> -56]
      [] x = [s |-> 0, m |-> <<29600, 11970, 18745, 199>>, e |-> -50] ->
         [s |-> 1, m |-> <<2210, 30492, 27552, 190>>, e |-> -57]
      [] x = [s |-> 0, m |-> <<20550, 31723, 19372, 199>>, e |-> -50] ->
         [s |-> 1, m |-> <<25670, 20265, 12583, 188>>, e |-> -57]
      [] x = [s |-> 0, m |-> <<14338, 16375, 30309, 199>>, e |-> -50] ->
         [s |-> 1, m |-> <<22664, 7460, 19392, 145>>, e |-> -57]
      [] x = [s |-> 0, m |-> <<3301, 20783, 715, 201>>, e |-> -50] ->
         [s |-> 1, m |-> <<3416, 31839, 6893, 164>>, e |-> -62]
      [] x = [s |-> 0, m |-> <<11544, 10376, 2029, 201>>, e |-> -50] ->
         [s |-> 1, m |-> <<23559, 26152, 6296, 141>>, e |-> -104]

(* f64::asin, as libm returns it, on the arguments the specifications reach *)
f64_asin(x) ==
    CASE x = [s |-> 1, m |-> <<24800, 19268, 15888, 161>>, e |-> -53] ->
         [s |-> 1, m |-> <<16252, 6245, 24299, 174>>, e |-> -53]
      [] x = [s |-> 1, m |-> <<22914, 13708, 1617, 158>>, e |-> -53] ->
         [s |-> 1, m |-> <<12507, 21702, 11288, 170>>, e |-> -53]
      [] x = [s |-> 1, m |-> <<20706, 7766, 890, 158>>, e |-> -53] ->
         [s |-> 1, m |-> <<6516, 10389, 10364, 170>>, e |-> -53]
      [] x = [s |-> 1, m |-> <<5065, 15672, 524, 158>>, e |-> -53] ->
         [s |-> 1, m |-> <<21850, 13720, 9899, 170>>, e |-> -53]
      [] x = [s |-> 1, m |-> <<20455, 2447, 8089, 132>>, e |-> -53] ->
         [s |-> 1, m |-> <<28526, 28316, 31878, 138>>, e |-> -53]
      [] x = [s |-> 1, m |-> <<8, 0, 0, 128>>, e |-> -53] ->
         [s |-> 1, m |-> <<29551, 28762, 1352, 134>>, e |-> -53]
      [] x = [s |-> 1, m |-> <<3, 0, 0, 128>>, e |-> -53] ->
         [s |-> 1, m |-> <<29545, 28762, 1352, 134>>, e |-> -53]
      [] x = [s |-> 1, m |-> <<20607, 9563, 16078, 255>>, e |-> -54] ->
         [s |-> 1, m |-> <<5654, 8560, 24488, 133>>, e |-> -53]
      [] x = [s |-> 1, m |-> <<21310, 31133, 16923, 228>>, e |-> -54] ->
         [s |-> 1, m |-> <<6286, 361, 28734, 236>>, e |-> -54]
      [] x = [s |-> 1, m |-> <<3232, 28620, 21485, 134>>, e |-> -54] ->
         [s |-> 1, m |-> <<31928, 6303, 8468, 136>>, e |-> -54]
      [] x = [s |-> 1, m |-> <<3231, 28620, 21485, 134>>, e |-> -54] ->
         [s |-> 1, m |-> <<31927, 6303, 8468, 136>>, e |-> -54]
      [] x = [s |-> 1, m |-> <<3230, 28620, 21485, 134>>, e |-> -54] ->
         [s |-> 1, m |-> <<31926, 6303, 8468, 136>>, e |-> -54]
      [] x = [s |-> 1, m |-> <<3229, 28620, 21485, 134>>, e |-> -54] ->
         [s |-> 1, m |-> <<31925, 6303, 8468, 136>>, e |-> -54]
      [] x = [s |-> 1, m |-> <<3228, 28620, 21485, 134>>, e |-> -54] ->
         [s |-> 1, m |-> <<31924, 6303, 8468, 136>>, e |-> -54]
      [] x = [s |-> 1, m |-> <<3227, 28620, 21485, 134>>, e |-> -54] ->
         [s |-> 1, m |-> <<31923, 6303, 8468, 136>>, e |-> -54]
      [] x = [s |-> 1, m |-> <<3226, 28620, 21485, 134>>, e |-> -54] ->
         [s |-> 1, m |-> <<31922, 6303, 8468, 136>>, e |-> -54]
      [] x = [s |-> 1, m |-> <<22888, 14234, 9080, 206>>, e |-> -55] ->
         [s |-> 1, m |-> <<28019, 7315, 22882, 207>>, e |-> -55]
      [] x = [s |-> 1, m |-> <<2848, 26660, 3682, 234>>, e |-> -56] ->
         [s |-> 1, m |-> <<753, 11465, 20489, 234>>, e |-> -56]
      [] x = [s |-> 1, m |-> <<10096, 7234, 32639, 233>>, e |-> -56] ->
         [s |-> 1, m |-> <<19687, 20287, 16652, 234>>, e |-> -56]
      [] x = [s |-> 1, m |-> <<13140, 20444, 25060, 233>>, e |-> -56] ->
         [s |-> 1, m |-> <<28249, 3781, 9024, 234>>, e |-> -56]
      [] x = [s |-> 1, m |-> <<28404, 5818, 11253, 168>>, e |-> -56] ->
         [s |-> 1, m |-> <<12942, 2646, 17484, 168>>, e |-> -56]
      [] x = [s |-> 1, m |-> <<1792, 10010, 16381, 145>>, e |-> -57] ->
         [s |-> 1, m |-> <<2752, 18549, 17384, 145>>, e |-> -57]
      [] x = [s |-> 1, m |-> <<0, 10304, 11535, 156>>, e |-> -76] ->
         [s |-> 1, m |-> <<5, 10304, 11535, 156>>, e |-> -76]
      [] x = [s |-> 1, m |-> <<0, 24128, 31190, 136>>, e |-> -77] ->
         [s |-> 1, m |-> <<1, 24128, 31190, 136>>, e |-> -77]
      [] x = [s |-> 1, m |-> <<0, 14848, 3035, 218>>, e |-> -79] ->
         [s |-> 1, m |-> <<0, 14848, 3035, 218>>, e |-> -79]
      [] x = [s |-> 1, m |-> <<9140, 11811, 30584, 202>>, e |-> -105] ->
         [s |-> 1, m |-> <<9140, 11811, 30584, 202>>, e |-> -105]
      [] x = [s |-> 1, m |-> <<5419, 8395, 30131, 202>>, e |-> -105] ->
         [s |-> 1, m |-> <<5419, 8395, 30131, 202>>, e |-> -105]
      [] x = [s |-> 1, m |-> <<8190, 9584, 29230, 202>>, e |-> -105] ->
         [s |-> 1, m |-> <<8190, 9584, 29230, 202>>, e |-> -105]
      [] x = [s |-> 1, m |-> <<13329, 9063, 23297, 224>>, e |-> -107] ->
         [s |-> 1, m |-> <<13329, 9063, 23297, 224>>, e |-> -107]
      [] x = [s |-> 1, m |-> <<9011, 7671, 21367, 224>>, e |-> -107] ->
         [s |-> 1, m |-> <<9011, 7671, 21367, 224>>, e |-> -107]
      [] x = [s |-> 1, m |-> <<6672, 16045, 20396, 224>>, e |-> -107] ->
         [s |-> 1, m |-> <<6672, 16045, 20396, 224>>, e |-> -107]
      [] x = [s |-> 0, m |-> <<0, 3712, 1889, 222>>, e |-> -78] ->
         [s |-> 0, m |-> <<1, 3712, 1889, 222>>, e |-> -78]
      [] x = [s |-> 0, m |-> <<0, 10368, 31123, 224>>, e |-> -78] ->
         [s |-> 0, m |-> <<1, 10368, 31123, 224>>, e |-> -78]
      [] x = [s |-> 0, m |-> <<0, 18496, 17374, 227>>, e |-> -77] ->
         [s |-> 0, m |-> <<4, 18496, 17374, 227>>, e |-> -77]
      [] x = [s |-> 0, m |-> <<0, 11584, 31561, 224>>, e |-> -75] ->
         [s |-> 0, m |-> <<58, 11584, 31561, 224>>, e |-> -75]
      [] x = [s |-> 0, m |-> <<0, 3200, 6827, 242>>, e |-> -75] ->
         [s |-> 0, m |-> <<72, 3200, 6827, 242>>, e |-> -75]
      [] x = [s |-> 0, m |-> <<10000, 17219, 4674, 156>>, e |-> -61] ->
         [s |-> 0, m |-> <<2111, 11998, 4679, 156>>, e |-> -61]
      [] x = [s |-> 0, m |-> <<32721, 5991, 8145, 225>>, e |-> -61] ->
         [s |-> 0, m |-> <<20753, 23426, 8159, 225>>, e |-> -61]
      [] x = [s |-> 0, m |-> <<2390, 7644, 32443, 139>>, e |-> -60] ->
         [s |-> 0, m |-> <<1304, 6132, 32457, 139>>, e |-> -60]
      [] x = [s |-> 0, m |-> <<25847, 18433, 976, 161>>, e |-> -60] ->
         [s |-> 0, m |-> <<16703, 26246, 997, 161>>, e |-> -60]
      [] x = [s |-> 0, m |-> <<32534, 18282, 27742, 236>>, e |-> -60] ->
         [s |-> 0, m |-> <<5899, 4482, 27810, 236>>, e |-> -60]
      [] x = [s |-> 0, m |-> <<11273, 29256, 20406, 138>>, e |-> -59] ->
         [s |-> 0, m |-> <<25655, 2948, 20461, 138>>, e |-> -59]
      [] x = [s |-> 0, m |-> <<5266, 3212, 21839, 150>>, e |-> -59] ->
         [s |-> 0, m |-> <<27059, 22431, 21908, 150>>, e |-> -59]
      [] x = [s |-> 0, m |-> <<17829, 14644, 9212, 161>>, e |-> -59] ->
         [s |-> 0, m |-> <<8076, 26274, 9297, 161>>, e |-> -59]
      [] x = [s |-> 0, m |-> <<4007, 29490, 8240, 187>>, e |-> -59] ->
         [s |-> 0, m |-> <<20467, 15916, 8374, 187>>, e |-> -59]
      [] x = [s |-> 0, m |-> <<8982, 23534, 25010, 210>>, e |-> -59] ->
         [s |-> 0, m |-> <<6448, 6876, 25201, 210>>, e |-> -59]
      [] x = [s |-> 0, m |-> <<10697, 4312, 23606, 239>>, e |-> -59] ->
         [s |-> 0, m |-> <<31986, 13984, 23886, 239>>, e |-> -59]
      [] x = [s |-> 0, m |-> <<8113, 19796, 9629, 138>>, e |-> -58] ->
         [s |-> 0, m |-> <<11258, 28640, 9844, 138>>, e |-> -58]
      [] x = [s |-> 0, m |-> <<14601, 19469, 2557, 147>>, e |-> -58] ->
         [s |-> 0, m |-> <<14659, 18016, 2816, 147>>, e |-> -58]
      [] x = [s |-> 0, m |-> <<23208, 20652, 22573, 151>>, e |-> -58] ->
         [s |-> 0, m |-> <<12584, 23413, 22857, 151>>, e |-> -58]
      [] x = [s |-> 0, m |-> <<24457, 27363, 25080, 152>>, e |-> -58] ->
         [s |-> 0, m |-> <<9720, 370, 25371, 152>>, e |-> -58]
      [] x = [s |-> 0, m |-> <<11929, 25870, 23843, 160>>, e |-> -58] ->
         [s |-> 0, m |-> <<30928, 24573, 24181, 160>>, e |-> -58]
      [] x = [s |-> 0, m |-> <<5455, 18078, 9459, 179>>, e |-> -58] ->
         [s |-> 0, m |-> <<28146, 21553, 9928, 179>>, e |-> -58]
      [] x = [s |-> 0, m |-> <<17000, 23137, 3493, 184>>, e |-> -58] ->
         [s |-> 0, m |-> <<31385, 21681, 4001, 184>>, e |-> -58]
      [] x = [s |-> 0, m |-> <<14561, 21675, 27048, 201>>, e |-> -58] ->
         [s |-> 0, m |-> <<30256, 28701, 27717, 201>>, e |-> -58]
      [] x = [s |-> 0, m |-> <<14372, 13583, 5009, 226>>, e |-> -58] ->
         [s |-> 0, m |-> <<13227, 1021, 5951, 226>>, e |-> -58]
      [] x = [s |-> 0, m |-> <<6458, 22104, 2960, 233>>, e |-> -58] ->
         [s |-> 0, m |-> <<7952, 21427, 3991, 233>>, e |-> -58]
      [] x = [s |-> 0, m |-> <<13510, 20999, 21586, 244>>, e |-> -58] ->
         [s |-> 0, m |-> <<13622, 29930, 22778, 244>>, e |-> -58]
      [] x = [s |-> 0, m |-> <<1951, 32280, 8650, 249>>, e |-> -58] ->
         [s |-> 0, m |-> <<27671, 28800, 9911, 249>>, e |-> -58]
      [] x = [s |-> 0, m |-> <<26032, 12870, 19899, 162>>, e |-> -57] ->
         [s |-> 0, m |-> <<16664, 31772, 21299, 162>>, e |-> -57]
      [] x = [s |-> 0, m |-> <<22907, 19807, 19221, 178>>, e |-> -57] ->
         [s |-> 0, m |-> <<12878, 8490, 21077, 178>>, e |-> -57]
      [] x = [s |-> 0, m |-> <<5085, 4363, 14053, 182>>, e |-> -57] ->
         [s |-> 0, m |-> <<31253, 7518, 16031, 182>>, e |-> -57]
      [] x = [s |-> 0, m |-> <<14356, 11437, 16968, 183>>, e |-> -57] ->
         [s |-> 0, m |-> <<10543, 3345, 18982, 183>>, e |-> -57]
      [] x = [s |-> 0, m |-> <<24698, 3491, 5861, 193>>, e |-> -57] ->
         [s |-> 0, m |-> <<7935, 5207, 8210, 193>>, e |-> -57]
      [] x = [s |-> 0, m |-> <<29729, 29557, 16079, 233>>, e |-> -57] ->
         [s |-> 0, m |-> <<13283, 21852, 20229, 233>>, e |-> -57]
      [] x = [s |-> 0, m |-> <<176, 27117, 11991, 142>>, e |-> -56] ->
         [s |-> 0, m |-> <<2342, 5251, 15757, 142>>, e |-> -56]
      [] x = [s |-> 0, m |-> <<9405, 6788, 1188, 158>>, e |-> -56] ->
         [s |-> 0, m |-> <<2708, 12689, 6341, 158>>, e |-> -56]
      [] x = [s |-> 0, m |-> <<21752, 15723, 17360, 159>>, e |-> -56] ->
         [s |-> 0, m |-> <<15893, 13697, 22661, 159>>, e |-> -56]
      [] x = [s |-> 0, m |-> <<30314, 2920, 19398, 170>>, e |-> -56] ->
         [s |-> 0, m |-> <<5189, 18138, 25882, 170>>, e |-> -56]
      [] x = [s |-> 0, m |-> <<12386, 13431, 31590, 173>>, e |-> -56] ->
         [s |-> 0, m |-> <<25335, 30182, 5699, 174>>, e |-> -56]
      [] x = [s |-> 0, m |-> <<15086, 125, 3740, 174>>, e |-> -56] ->
         [s |-> 0, m |-> <<2810, 12067, 10635, 174>>, e |-> -56]
      [] x = [s |-> 0, m |-> <<23706, 8637, 6213, 174>>, e |-> -56] ->
         [s |-> 0, m |-> <<16867, 20278, 13117, 174>>, e |-> -56]
      [] x = [s |-> 0, m |-> <<705, 26784, 23089, 182>>, e |-> -56] ->
         [s |-> 0, m |-> <<32751, 20294, 31059, 182>>, e |-> -56]
      [] x = [s |-> 0, m |-> <<32060, 19252, 17009, 183>>, e |-> -56] ->
         [s |-> 0, m |-> <<28926, 23159, 25086, 183>>, e |-> -56]
      [] x = [s |-> 0, m |-> <<14920, 2050, 5108, 194>>, e |-> -56] ->
         [s |-> 0, m |-> <<23971, 24883, 14676, 194>>, e |-> -56]
      [] x = [s |-> 0, m |-> <<4350, 11440, 25522, 213>>, e |-> -56] ->
         [s |-> 0, m |-> <<26699, 15780, 5538, 214>>, e |-> -56]
      [] x = [s |-> 0, m |-> <<20243, 27910, 25019, 242>>, e |-> -56] ->
         [s |-> 0, m |-> <<7934, 20367, 10999, 243>>, e |-> -56]
      [] x = [s |-> 0, m |-> <<18281, 30629, 2148, 129>>, e |-> -55] ->
         [s |-> 0, m |-> <<21918, 15821, 13427, 129>>, e |-> -55]
      [] x = [s |-> 0, m |-> <<20279, 21035, 17562, 166>>, e |-> -55] ->
         [s |-> 0, m |-> <<4634, 17200, 9141, 167>>, e |-> -55]
      [] x = [s |-> 0, m |-> <<14482, 29710, 31387, 167>>, e |-> -55] ->
         [s |-> 0, m |-> <<11412, 31619, 23600, 168>>, e |-> -55]
      [] x = [s |-> 0, m |-> <<29566, 31766, 26729, 177>>, e |-> -55] ->
         [s |-> 0, m |-> <<17532, 5582, 23649, 178>>, e |-> -55]
      [] x = [s |-> 0, m |-> <<18580, 28298, 6296, 179>>, e |-> -55] ->
         [s |-> 0, m |-> <<1997, 12324, 3917, 180>>, e |-> -55]
      [] x = [s |-> 0, m |-> <<13202, 6311, 21271, 188>>, e |-> -55] ->
         [s |-> 0, m |-> <<9702, 22552, 24015, 189>>, e |-> -55]
      [] x = [s |-> 0, m |-> <<28359, 26477, 24400, 189>>, e |-> -55] ->
         [s |-> 0, m |-> <<13373, 5751, 27774, 190>>, e |-> -55]
      [] x = [s |-> 0, m |-> <<18567, 14518, 16473, 197>>, e |-> -55] ->
         [s |-> 0, m |-> <<31994, 22488, 24517, 198>>, e |-> -55]
      [] x = [s |-> 0, m |-> <<27321, 12772, 3978, 199>>, e |-> -55] ->
         [s |-> 0, m |-> <<2111, 6379, 13046, 200>>, e |-> -55]
      [] x = [s |-> 0, m |-> <<21797, 14156, 7289, 200>>, e |-> -55] ->
         [s |-> 0, m |-> <<15441, 11035, 17063, 201>>, e |-> -55]
      [] x = [s |-> 0, m |-> <<8854, 13039, 20343, 209>>, e |-> -55] ->
         [s |-> 0, m |-> <<21249, 28150, 3708, 211>>, e |-> -55]
      [] x = [s |-> 0, m |-> <<15034, 14383, 13779, 238>>, e |-> -55] ->
         [s |-> 0, m |-> <<30440, 30281, 20610, 240>>, e |-> -55]
      [] x = [s |-> 0, m |-> <<24881, 5478, 11011, 142>>, e |-> -54] ->
         [s |-> 0, m |-> <<9010, 9472, 7742, 144>>, e |-> -54]
      [] x = [s |-> 0, m |-> <<1932, 15342, 29582, 159>>, e |-> -54] ->
         [s |-> 0, m |-> <<8060, 18326, 20427, 162>>, e |-> -54]
      [] x = [s |-> 0, m |-> <<11402, 11524, 28536, 162>>, e |-> -54] ->
         [s |-> 0, m |-> <<25457, 31143, 24605, 165>>, e |-> -54]
      [] x = [s |-> 0, m |-> <<21413, 7881, 2951, 167>>, e |-> -54] ->
         [s |-> 0, m |-> <<2638, 4791, 6811, 170>>, e |-> -54]
      [] x = [s |-> 0, m |-> <<21414, 7881, 2951, 167>>, e |-> -54] ->
         [s |-> 0, m |-> <<2639, 4791, 6811, 170>>, e |-> -54]
      [] x = [s |-> 0, m |-> <<21415, 7881, 2951, 167>>, e |-> -54] ->
         [s |-> 0, m |-> <<2640, 4791, 6811, 170>>, e |-> -54]
      [] x = [s |-> 0, m |-> <<15868, 23875, 32635, 168>>, e |-> -54] ->
         [s |-> 0, m |-> <<12299, 3931, 7390, 172>>, e |-> -54]
      [] x = [s |-> 0, m |-> <<4779, 2724, 7310, 171>>, e |-> -54] ->
         [s |-> 0, m |-> <<1326, 30563, 19227, 174>>, e |-> -54]
      [] x = [s |-> 0, m |-> <<4780, 2724, 7310, 171>>, e |-> -54] ->
         [s |-> 0, m |-> <<1327, 30563, 19227, 174>>, e |-> -54]
      [] x = [s |-> 0, m |-> <<15893, 17030, 3248, 188>>, e |-> -54] ->
         [s |-> 0, m |-> <<12018, 29708, 19992, 192>>, e |-> -54]
      [] x = [s |-> 0, m |-> <<17881, 7911, 5022, 188>>, e |-> -54] ->
         [s |-> 0, m |-> <<26261, 1066, 21900, 192>>, e |-> -54]
      [] x = [s |-> 0, m |-> <<14383, 9791, 5914, 188>>, e |-> -54] ->
         [s |-> 0, m |-> <<5143, 7053, 22859, 192>>, e |-> -54]
      [] x = [s |-> 0, m |-> <<22010, 25403, 5806, 203>>, e |-> -54] ->
         [s |-> 0, m |-> <<27484, 8315, 30387, 208>>, e |-> -54]
      [] x = [s |-> 0, m |-> <<9414, 6716, 23580, 208>>, e |-> -54] ->
         [s |-> 0, m |-> <<3487, 5233, 32150, 214>>, e |-> -54]
      [] x = [s |-> 0, m |-> <<8691, 22742, 24893, 242>>, e |-> -54] ->
         [s |-> 0, m |-> <<26284, 5881, 30191, 252>>, e |-> -54]
      [] x = [s |-> 0, m |-> <<31697, 15772, 27694, 244>>, e |-> -54] ->
         [s |-> 0, m |-> <<10301, 5961, 9600, 255>>, e |-> -54]
      [] x = [s |-> 0, m |-> <<8304, 716, 31218, 251>>, e |-> -54] ->
         [s |-> 0, m |-> <<565, 6330, 23287, 131>>, e |-> -53]
      [] x = [s |-> 0, m |-> <<20789, 21665, 2539, 254>>, e |-> -54] ->
         [s |-> 0, m |-> <<11967, 7224, 30563, 132>>, e |-> -53]
      [] x = [s |-> 0, m |-> <<27191, 12418, 3981, 254>>, e |-> -54] ->
         [s |-> 0, m |-> <<5851, 18089, 31393, 132>>, e |-> -53]
      [] x = [s |-> 0, m |-> <<30273, 8051, 2443, 255>>, e |-> -54] ->
         [s |-> 0, m |-> <<8924, 12973, 16623, 133>>, e |-> -53]
      [] x = [s |-> 0, m |-> <<5352, 10057, 12194, 132>>, e |-> -53] ->
         [s |-> 0, m |-> <<23878, 7095, 3906, 139>>, e |-> -53]
      [] x = [s |-> 0, m |-> <<16392, 26414, 29376, 135>>, e |-> -53] ->
         [s |-> 0, m |-> <<705, 1266, 8426, 143>>, e |-> -53]
      [] x = [s |-> 0, m |-> <<9863, 17388, 16520, 139>>, e |-> -53] ->
         [s |-> 0, m |-> <<10343, 17947, 17587, 147>>, e |-> -53]
      [] x = [s |-> 0, m |-> <<9584, 20211, 11770, 145>>, e |-> -53] ->
         [s |-> 0, m |-> <<17794, 21554, 19123, 154>>, e |-> -53]
      [] x = [s |-> 0, m |-> <<9063, 2567, 24300, 146>>, e |-> -53] ->
         [s |-> 0, m |-> <<26303, 28408, 8741, 156>>, e |-> -53]
      [] x = [s |-> 0, m |-> <<346, 15276, 11600, 149>>, e |-> -53] ->
         [s |-> 0, m |-> <<29496, 19528, 15370, 159>>, e |-> -53]
      [] x = [s |-> 0, m |-> <<10921, 24969, 9901, 150>>, e |-> -53] ->
         [s |-> 0, m |-> <<14606, 1184, 20920, 160>>, e |-> -53]
      [] x = [s |-> 0, m |-> <<21809, 24601, 2724, 162>>, e |-> -53] ->
         [s |-> 0, m |-> <<20886, 3768, 16827, 175>>, e |-> -53]
      [] x = [s |-> 0, m |-> <<15307, 19710, 633, 181>>, e |-> -53] ->
         [s |-> 0, m |-> <<11542, 10376, 2029, 201>>, e |-> -53]
      [] x = [s |-> 0, m |-> <<15308, 19710, 633, 181>>, e |-> -53] ->
         [s |-> 0, m |-> <<11543, 10376, 2029, 201>>, e |-> -53]
      [] x = [s |-> 0, m |-> <<15309, 19710, 633, 181>>, e |-> -53] ->
         [s |-> 0, m |-> <<11545, 10376, 2029, 201>>, e |-> -53]
      [] x = [s |-> 0, m |-> <<20768, 2861, 15542, 191>>, e |-> -53] ->
         [s |-> 0, m |-> <<11312, 27703, 10174, 216>>, e |-> -53]
      [] x = [s |-> 0, m |-> <<20537, 17822, 3518, 196>>, e |-> -53] ->
         [s |-> 0, m |-> <<5545, 15170, 13177, 223>>, e |-> -53]
      [] x = [s |-> 0, m |-> <<6193, 1872, 31752, 205>>, e |-> -53] ->
         [s |-> 0, m |-> <<7047, 23897, 11334, 239>>, e |-> -53]
      [] x = [s |-> 0, m |-> <<12343, 30246, 2460, 214>>, e |-> -53] ->
         [s |-> 0, m |-> <<18435, 6615, 17551, 253>>, e |-> -53]
      [] x = [s |-> 0, m |-> <<9048, 14789, 31581, 222>>, e |-> -53] ->
         [s |-> 0, m |-> <<14539, 7832, 10274, 135>>, e |-> -52]
      [] x = [s |-> 0, m |-> <<20176, 2342, 4558, 229>>, e |-> -53] ->
         [s |-> 0, m |-> <<17357, 4448, 29511, 141>>, e |-> -52]
      [] x = [s |-> 0, m |-> <<406, 30621, 6020, 230>>, e |-> -53] ->
         [s |-> 0, m |-> <<31007, 14577, 2717, 143>>, e |-> -52]
      [] x = [s |-> 0, m |-> <<27853, 22905, 14241, 230>>, e |-> -53] ->
         [s |-> 0, m |-> <<13102, 17452, 12131, 143>>, e |-> -52]
      [] x = [s |-> 0, m |-> <<26087, 1980, 5895, 240>>, e |-> -53] ->
         [s |-> 0, m |-> <<14755, 6403, 27106, 155>>, e |-> -52]
      [] x = [s |-> 0, m |-> <<14923, 26299, 29534, 240>>, e |-> -53] ->
         [s |-> 0, m |-> <<28610, 2366, 28877, 156>>, e |-> -52]
      [] x = [s |-> 0, m |-> <<26331, 6416, 30743, 240>>, e |-> -53] ->
         [s |-> 0, m |-> <<32329, 27941, 30663, 156>>, e |-> -52]
      [] x = [s |-> 0, m |-> <<19163, 5456, 8649, 242>>, e |-> -53] ->
         [s |-> 0, m |-> <<5698, 5233, 30837, 158>>, e |-> -52]
      [] x = [s |-> 0, m |-> <<27156, 5007, 11290, 248>>, e |-> -53] ->
         [s |-> 0, m |-> <<16076, 19767, 22284, 169>>, e |-> -52]
      [] x = [s |-> 0, m |-> <<30720, 19731, 5326, 251>>, e |-> -53] ->
         [s |-> 0, m |-> <<8603, 14122, 4554, 176>>, e |-> -52]
      [] x = [s |-> 0, m |-> <<12350, 23674, 23935, 251>>, e |-> -53] ->
         [s |-> 0, m |-> <<444, 7747, 21363, 177>>, e |-> -52]
      [] x = [s |-> 0, m |-> <<11656, 6958, 27953, 251>>, e |-> -53] ->
         [s |-> 0, m |-> <<11053, 26448, 32487, 177>>, e |-> -52]
      [] x = [s |-> 0, m |-> <<3476, 28513, 32746, 255>>, e |-> -53] ->
         [s |-> 0, m |-> <<29319, 7501, 25383, 200>>, e |-> -52]
      [] x = [s |-> 0, m |-> <<0, 0, 0, 128>>, e |-> -52] ->
         [s |-> 0, m |-> <<11544, 10376, 2029, 201>>, e |-> -52]
      [] x = [s |-> 0, m |-> <<8259, 8515, 1366, 128>>, e |-> -52] ->
         NaN
      [] x = [s |-> 0, m |-> <<20000, 1608, 29931, 128>>, e |-> -52] ->
         NaN
      [] x = [s |-> 0, m |-> <<12413, 8050, 4745, 130>>, e |-> -52] ->
         NaN

(* f64::acos, as libm returns it, on the arguments the specifications reach *)
f64_acos(x) ==
    CASE x = [s |-> 1, m |-> <<10794, 25618, 5655, 211>>, e |-> -50] ->
         NaN
      [] x = [s |-> 1, m |-> <<11042, 5575, 18986, 183>>, e |-> -50] ->
         NaN
      [] x = [s |-> 1, m |-> <<32764, 32767, 32767, 191>>, e |-> -51] ->
         NaN
      [] x = [s |-> 1, m |-> <<19623, 20656, 23019, 221>>, e |-> -52] ->
         NaN
      [] x = [s |-> 1, m |-> <<5, 0, 0, 128>>, e |-> -52] ->
         NaN
      [] x = [s |-> 1, m |-> <<3, 0, 0, 128>>, e |-> -52] ->
         NaN
      [] x = [s |-> 1, m |-> <<1, 0, 0, 128>>, e |-> -52] ->
         NaN
      [] x = [s |-> 1, m |-> <<0, 0, 0, 128>>, e |-> -52] ->
         [s |-> 0, m |-> <<11544, 10376, 2029, 201>>, e |-> -51]
      [] x = [s |-> 1, m |-> <<32766, 32767, 32767, 255>>, e |-> -53] ->
         [s |-> 0, m |-> <<6475, 8928, 2029, 201>>, e |-> -51]
      [] x = [s |-> 1, m |-> <<32765, 32767, 32767, 255>>, e |-> -53] ->
         [s |-> 0, m |-> <<23995, 8602, 2029, 201>>, e |-> -51]
      [] x = [s |-> 1, m |-> <<32760, 32767, 32767, 255>>, e |-> -53] ->
         [s |-> 0, m |-> <<1407, 7480, 2029, 201>>, e |-> -51]
      [] x = [s |-> 1, m |-> <<32758, 32767, 32767, 255>>, e |-> -53] ->
         [s |-> 0, m |-> <<5898, 7138, 2029, 201>>, e |-> -51]
      [] x = [s |-> 1, m |-> <<2162, 23090, 4552, 255>>, e |-> -53] ->
         [s |-> 0, m |-> <<16531, 19614, 26583, 195>>, e |-> -51]
      [] x = [s |-> 1, m |-> <<32665, 6453, 32275, 253>>, e |-> -53] ->
         [s |-> 0, m |-> <<17161, 21456, 872, 193>>, e |-> -51]
      [] x = [s |-> 1, m |-> <<12286, 14026, 31191, 248>>, e |-> -53] ->
         [s |-> 0, m |-> <<28374, 5179, 304, 186>>, e |-> -51]
      [] x = [s |-> 1, m |-> <<15540, 19728, 29490, 248>>, e |-> -53] ->
         [s |-> 0, m |-> <<25096, 26645, 31250, 185>>, e |-> -51]
      [] x = [s |-> 1, m |-> <<23420, 2893, 23712, 229>>, e |-> -53] ->
         [s |-> 0, m |-> <<19726, 19842, 26564, 171>>, e |-> -51]
      [] x = [s |-> 1, m |-> <<7403, 24757, 14568, 223>>, e |-> -53] ->
         [s |-> 0, m |-> <<620, 6102, 14195, 168>>, e |-> -51]
      [] x = [s |-> 1, m |-> <<25807, 20961, 31367, 215>>, e |-> -53] ->
         [s |-> 0, m |-> <<15843, 22934, 25621, 164>>, e |-> -51]
      [] x = [s |-> 1, m |-> <<31488, 6592, 21357, 214>>, e |-> -53] ->
         [s |-> 0, m |-> <<9287, 8667, 5852, 164>>, e |-> -51]
      [] x = [s |-> 1, m |-> <<10927, 12839, 9631, 197>>, e |-> -53] ->
         [s |-> 0, m |-> <<25696, 21692, 27688, 156>>, e |-> -51]
      [] x = [s |-> 1, m |-> <<21313, 19548, 17231, 196>>, e |-> -53] ->
         [s |-> 0, m |-> <<115, 18597, 17842, 156>>, e |-> -51]
      [] x = [s |-> 1, m |-> <<10043, 17268, 29225, 193>>, e |-> -53] ->
         [s |-> 0, m |-> <<6570, 30527, 17255, 155>>, e |-> -51]
      [] x = [s |-> 1, m |-> <<15316, 19710, 633, 181>>, e |-> -53] ->
         [s |-> 0, m |-> <<8661, 32358, 26097, 150>>, e |-> -51]
      [] x = [s |-> 1, m |-> <<15314, 19710, 633, 181>>, e |-> -53] ->
         [s |-> 0, m |-> <<8660, 32358, 26097, 150>>, e |-> -51]
      [] x = [s |-> 1, m |-> <<31003, 13347, 14820, 176>>, e |-> -53] ->
         [s |-> 0, m |-> <<29455, 13448, 6601, 149>>, e |-> -51]
      [] x = [s |-> 1, m |-> <<23474, 18618, 13235, 166>>, e |-> -53] ->
         [s |-> 0, m |-> <<7935, 176, 26793, 145>>, e |-> -51]
      [] x = [s |-> 1, m |-> <<13093, 2848, 26269, 147>>, e |-> -53] ->
         [s |-> 0, m |-> <<20676, 5253, 30201, 139>>, e |-> -51]
      [] x = [s |-> 1, m |-> <<13091, 2848, 26269, 147>>, e |-> -53] ->
         [s |-> 0, m |-> <<20675, 5253, 30201, 139>>, e |-> -51]
      [] x = [s |-> 1, m |-> <<13089, 2848, 26269, 147>>, e |-> -53] ->
         [s |-> 0, m |-> <<20675, 5253, 30201, 139>>, e |-> -51]
      [] x = [s |-> 1, m |-> <<13083, 2848, 26269, 147>>, e |-> -53] ->
         [s |-> 0, m |-> <<20673, 5253, 30201, 139>>, e |-> -51]
      [] x = [s |-> 1, m |-> <<5422, 11057, 22706, 133>>, e |-> -53] ->
         [s |-> 0, m |-> <<8140, 16478, 22847, 135>>, e |-> -51]
      [] x = [s |-> 1, m |-> <<23650, 4976, 27496, 131>>, e |-> -53] ->
         [s |-> 0, m |-> <<12413, 15840, 5085, 135>>, e |-> -51]
      [] x = [s |-> 1, m |-> <<17284, 27376, 6415, 253>>, e |-> -54] ->
         [s |-> 0, m |-> <<28678, 46, 20882, 133>>, e |-> -51]
      [] x = [s |-> 1, m |-> <<4589, 13886, 4262, 248>>, e |-> -54] ->
         [s |-> 0, m |-> <<13883, 24601, 29853, 132>>, e |-> -51]
      [] x = [s |-> 1, m |-> <<16774, 25178, 2056, 218>>, e |-> -54] ->
         [s |-> 0, m |-> <<1572, 31768, 22558, 128>>, e |-> -51]
      [] x = [s |-> 1, m |-> <<6524, 16487, 22336, 211>>, e |-> -54] ->
         [s |-> 0, m |-> <<15062, 2273, 20294, 255>>, e |-> -52]
      [] x = [s |-> 1, m |-> <<5300, 25218, 6147, 206>>, e |-> -54] ->
         [s |-> 0, m |-> <<31196, 29141, 3762, 254>>, e |-> -52]
      [] x = [s |-> 1, m |-> <<16895, 16858, 24809, 205>>, e |-> -54] ->
         [s |-> 0, m |-> <<16250, 28774, 32678, 253>>, e |-> -52]
      [] x = [s |-> 1, m |-> <<4926, 4157, 24561, 203>>, e |-> -54] ->
         [s |-> 0, m |-> <<13488, 15480, 14735, 253>>, e |-> -52]
      [] x = [s |-> 1, m |-> <<1443, 24630, 9499, 203>>, e |-> -54] ->
         [s |-> 0, m |-> <<32053, 432, 10632, 253>>, e |-> -52]
      [] x = [s |-> 1, m |-> <<29391, 20951, 3259, 201>>, e |-> -54] ->
         [s |-> 0, m |-> <<4536, 13609, 23868, 252>>, e |-> -52]
      [] x = [s |-> 1, m |-> <<9581, 2293, 10728, 200>>, e |-> -54] ->
         [s |-> 0, m |-> <<22346, 6963, 16993, 252>>, e |-> -52]
      [] x = [s |-> 1, m |-> <<9126, 26053, 27214, 198>>, e |-> -54] ->
         [s |-> 0, m |-> <<447, 19653, 3677, 252>>, e |-> -52]
      [] x = [s |-> 1, m |-> <<15268, 15733, 21507, 198>>, e |-> -54] ->
         [s |-> 0, m |-> <<25031, 12137, 2129, 252>>, e |-> -52]
      [] x = [s |-> 1, m |-> <<5954, 14167, 15486, 198>>, e |-> -54] ->
         [s |-> 0, m |-> <<31253, 9671, 496, 252>>, e |-> -52]
      [] x = [s |-> 1, m |-> <<11666, 7556, 20155, 197>>, e |-> -54] ->
         [s |-> 0, m |-> <<14326, 17723, 25646, 251>>, e |-> -52]
      [] x = [s |-> 1, m |-> <<5130, 4749, 7526, 189>>, e |-> -54] ->
         [s |-> 0, m |-> <<1423, 31879, 16989, 249>>, e |-> -52]
      [] x = [s |-> 1, m |-> <<7446, 19079, 7454, 189>>, e |-> -54] ->
         [s |-> 0, m |-> <<16047, 23558, 16970, 249>>, e |-> -52]
      [] x = [s |-> 1, m |-> <<25547, 8925, 25846, 182>>, e |-> -54] ->
         [s |-> 0, m |-> <<26748, 24439, 25891, 247>>, e |-> -52]
      [] x = [s |-> 1, m |-> <<3495, 28573, 19407, 180>>, e |-> -54] ->
         [s |-> 0, m |-> <<19692, 17626, 6645, 247>>, e |-> -52]
      [] x = [s |-> 1, m |-> <<18221, 13734, 9553, 177>>, e |-> -54] ->
         [s |-> 0, m |-> <<7799, 29465, 10553, 246>>, e |-> -52]
      [] x = [s |-> 1, m |-> <<4730, 26455, 30484, 173>>, e |-> -54] ->
         [s |-> 0, m |-> <<26343, 15970, 14008, 245>>, e |-> -52]
      [] x = [s |-> 1, m |-> <<21861, 10922, 21845, 170>>, e |-> -54] ->
         [s |-> 0, m |-> <<29025, 20490, 18384, 244>>, e |-> -52]
      [] x = [s |-> 1, m |-> <<22265, 28383, 16924, 168>>, e |-> -54] ->
         [s |-> 0, m |-> <<29568, 21607, 32484, 243>>, e |-> -52]
      [] x = [s |-> 1, m |-> <<32334, 9319, 2045, 162>>, e |-> -54] ->
         [s |-> 0, m |-> <<27420, 3751, 9389, 242>>, e |-> -52]
      [] x = [s |-> 1, m |-> <<9730, 8394, 27002, 161>>, e |-> -54] ->
         [s |-> 0, m |-> <<27361, 22245, 7330, 242>>, e |-> -52]
      [] x = [s |-> 1, m |-> <<29280, 5686, 17475, 154>>, e |-> -54] ->
         [s |-> 0, m |-> <<5415, 3549, 10068, 240>>, e |-> -52]
      [] x = [s |-> 1, m |-> <<16269, 29017, 24364, 149>>, e |-> -54] ->
         [s |-> 0, m |-> <<31236, 7050, 1742, 239>>, e |-> -52]
      [] x = [s |-> 1, m |-> <<19787, 331, 22032, 132>>, e |-> -54] ->
         [s |-> 0, m |-> <<31468, 6979, 20083, 234>>, e |-> -52]
      [] x = [s |-> 1, m |-> <<30416, 28719, 8837, 235>>, e |-> -55] ->
         [s |-> 0, m |-> <<404, 8988, 24108, 230>>, e |-> -52]
      [] x = [s |-> 1, m |-> <<30473, 2748, 15079, 233>>, e |-> -55] ->
         [s |-> 0, m |-> <<23736, 10593, 16494, 230>>, e |-> -52]
      [] x = [s |-> 1, m |-> <<31107, 19979, 19595, 202>>, e |-> -55] ->
         [s |-> 0, m |-> <<8702, 12079, 18182, 226>>, e |-> -52]
      [] x = [s |-> 1, m |-> <<32204, 13126, 31959, 166>>, e |-> -55] ->
         [s |-> 0, m |-> <<7665, 31110, 899, 222>>, e |-> -52]
      [] x = [s |-> 1, m |-> <<8946, 13797, 5916, 155>>, e |-> -55] ->
         [s |-> 0, m |-> <<30331, 7893, 17515, 220>>, e |-> -52]
      [] x = [s |-> 1, m |-> <<14700, 20422, 9496, 137>>, e |-> -55] ->
         [s |-> 0, m |-> <<19511, 28641, 9010, 218>>, e |-> -52]
      [] x = [s |-> 1, m |-> <<28437, 27780, 22670, 129>>, e |-> -55] ->
         [s |-> 0, m |-> <<27186, 23416, 10389, 217>>, e |-> -52]
      [] x = [s |-> 1, m |-> <<3783, 5754, 21499, 192>>, e |-> -56] ->
         [s |-> 0, m |-> <<23933, 8842, 3957, 213>>, e |-> -52]
      [] x = [s |-> 1, m |-> <<30626, 28695, 20868, 192>>, e |-> -56] ->
         [s |-> 0, m |-> <<14700, 22959, 3917, 213>>, e |-> -52]
      [] x = [s |-> 1, m |-> <<2699, 4433, 32077, 189>>, e |-> -56] ->
         [s |-> 0, m |-> <<3139, 10175, 31218, 212>>, e |-> -52]
      [] x = [s |-> 1, m |-> <<26243, 24337, 3840, 178>>, e |-> -56] ->
         [s |-> 0, m |-> <<15074, 26441, 6826, 212>>, e |-> -52]
      [] x = [s |-> 1, m |-> <<18379, 10047, 31893, 160>>, e |-> -56] ->
         [s |-> 0, m |-> <<1169, 1609, 4363, 211>>, e |-> -52]
      [] x = [s |-> 1, m |-> <<11633, 32661, 32086, 191>>, e |-> -57] ->
         [s |-> 0, m |-> <<18513, 2725, 2080, 207>>, e |-> -52]
      [] x = [s |-> 1, m |-> <<1004, 12962, 20776, 190>>, e |-> -57] ->
         [s |-> 0, m |-> <<4858, 3998, 701, 207>>, e |-> -52]
      [] x = [s |-> 1, m |-> <<23428, 5730, 6065, 188>>, e |-> -57] ->
         [s |-> 0, m |-> <<8288, 23291, 30958, 206>>, e |-> -52]
      [] x = [s |-> 1, m |-> <<913, 21705, 8527, 166>>, e |-> -57] ->
         [s |-> 0, m |-> <<14235, 19403, 8486, 206>>, e |-> -52]
      [] x = [s |-> 1, m |-> <<14123, 4275, 16386, 237>>, e |-> -58] ->
         [s |-> 0, m |-> <<22746, 12809, 25342, 204>>, e |-> -52]
      [] x = [s |-> 1, m |-> <<5106, 31825, 24447, 222>>, e |-> -58] ->
         [s |-> 0, m |-> <<21694, 12251, 17785, 204>>, e |-> -52]
      [] x = [s |-> 1, m |-> <<29691, 17135, 5640, 201>>, e |-> -58] ->
         [s |-> 0, m |-> <<20156, 26380, 6735, 204>>, e |-> -52]
      [] x = [s |-> 1, m |-> <<24792, 16794, 15334, 130>>, e |-> -58] ->
         [s |-> 0, m |-> <<5070, 24335, 3295, 203>>, e |-> -52]
      [] x = Zero ->
         [s |-> 0, m |-> <<11544, 10376, 2029, 201>>, e |-> -52]
      [] x = [s |-> 0, m |-> <<7869, 31290, 31017, 140>>, e |-> -59] ->
         [s |-> 0, m |-> <<29045, 17819, 31482, 199>>, e |-> -52]
      [] x = [s |-> 0, m |-> <<6859, 7055, 1662, 185>>, e |-> -58] ->
         [s |-> 0, m |-> <<22432, 9338, 5579, 198>>, e |-> -52]
      [] x = [s |-> 0, m |-> <<15711, 10297, 4304, 185>>, e |-> -58] ->
         [s |-> 0, m |-> <<19826, 32494, 5537, 198>>, e |-> -52]
      [] x = [s |-> 0, m |-> <<8471, 8360, 19486, 229>>, e |-> -57] ->
         [s |-> 0, m |-> <<24331, 2649, 28945, 193>>, e |-> -52]
      [] x = [s |-> 0, m |-> <<6439, 2125, 18079, 231>>, e |-> -57] ->
         [s |-> 0, m |-> <<3265, 28599, 26937, 193>>, e |-> -52]
      [] x = [s |-> 0, m |-> <<25163, 3011, 17992, 232>>, e |-> -57] ->
         [s |-> 0, m |-> <<7238, 31057, 25914, 193>>, e |-> -52]
      [] x = [s |-> 0, m |-> <<17684, 1758, 21516, 138>>, e |-> -56] ->
         [s |-> 0, m |-> <<15607, 5705, 12755, 192>>, e |-> -52]
      [] x = [s |-> 0, m |-> <<29893, 27085, 21069, 175>>, e |-> -56] ->
         [s |-> 0, m |-> <<17737, 464, 2318, 190>>, e |-> -52]
      [] x = [s |-> 0, m |-> <<28389, 12670, 29878, 199>>, e |-> -56] ->
         [s |-> 0, m |-> <<31507, 30568, 17940, 188>>, e |-> -52]
      [] x = [s |-> 0, m |-> <<7478, 11252, 27893, 222>>, e |-> -56] ->
         [s |-> 0, m |-> <<1919, 15836, 3476, 187>>, e |-> -52]
      [] x = [s |-> 0, m |-> <<11636, 26313, 15306, 227>>, e |-> -56] ->
         [s |-> 0, m |-> <<18975, 15904, 26733, 186>>, e |-> -52]
      [] x = [s |-> 0, m |-> <<9957, 18633, 30322, 132>>, e |-> -55] ->
         [s |-> 0, m |-> <<30639, 6401, 13082, 184>>, e |-> -52]
      [] x = [s |-> 0, m |-> <<11264, 31345, 13332, 148>>, e |-> -55] ->
         [s |-> 0, m |-> <<15728, 10861, 14598, 182>>, e |-> -52]
      [] x = [s |-> 0, m |-> <<31061, 13326, 4916, 154>>, e |-> -55] ->
         [s |-> 0, m |-> <<14892, 12498, 23581, 181>>, e |-> -52]
      [] x = [s |-> 0, m |-> <<14099, 1742, 32586, 172>>, e |-> -55] ->
         [s |-> 0, m |-> <<20689, 14273, 10925, 179>>, e |-> -52]
      [] x = [s |-> 0, m |-> <<21716, 21789, 31084, 178>>, e |-> -55] ->
         [s |-> 0, m |-> <<3249, 25591, 18936, 178>>, e |-> -52]
      [] x = [s |-> 0, m |-> <<26149, 5136, 17609, 184>>, e |-> -55] ->
         [s |-> 0, m |-> <<23884, 29249, 28443, 177>>, e |-> -52]
      [] x = [s |-> 0, m |-> <<22852, 7160, 13023, 190>>, e |-> -55] ->
         [s |-> 0, m |-> <<23269, 14979, 4028, 177>>, e |-> -52]
      [] x = [s |-> 0, m |-> <<13390, 19668, 1540, 195>>, e |-> -55] ->
         [s |-> 0, m |-> <<30754, 7827, 17405, 176>>, e |-> -52]
      [] x = [s |-> 0, m |-> <<28991, 22162, 18561, 221>>, e |-> -55] ->
         [s |-> 0, m |-> <<27582, 6357, 4762, 173>>, e |-> -52]
      [] x = [s |-> 0, m |-> <<30427, 28719, 8837, 235>>, e |-> -55] ->
         [s |-> 0, m |-> <<22683, 11764, 12718, 171>>, e |-> -52]
      [] x = [s |-> 0, m |-> <<1012, 10490, 31256, 160>>, e |-> -54] ->
         [s |-> 0, m |-> <<19911, 11918, 4239, 160>>, e |-> -52]
      [] x = [s |-> 0, m |-> <<8402, 4344, 30265, 161>>, e |-> -54] ->
         [s |-> 0, m |-> <<26092, 4309, 28636, 159>>, e |-> -52]
      [] x = [s |-> 0, m |-> <<11123, 22767, 13465, 162>>, e |-> -54] ->
         [s |-> 0, m |-> <<1401, 9761, 24427, 159>>, e |-> -52]
      [] x = [s |-> 0, m |-> <<7185, 16380, 7776, 163>>, e |-> -54] ->
         [s |-> 0, m |-> <<19701, 29647, 17286, 159>>, e |-> -52]
      [] x = [s |-> 0, m |-> <<32557, 20473, 3362, 165>>, e |-> -54] ->
         [s |-> 0, m |-> <<7428, 18591, 1154, 159>>, e |-> -52]
      [] x = [s |-> 0, m |-> <<25579, 1084, 2295, 168>>, e |-> -54] ->
         [s |-> 0, m |-> <<17217, 20154, 8214, 158>>, e |-> -52]
      [] x = [s |-> 0, m |-> <<21853, 10922, 21845, 170>>, e |-> -54] ->
         [s |-> 0, m |-> <<26834, 261, 18442, 157>>, e |-> -52]
      [] x = [s |-> 0, m |-> <<10742, 5924, 17620, 171>>, e |-> -54] ->
         [s |-> 0, m |-> <<13269, 742, 10871, 157>>, e |-> -52]
      [] x = [s |-> 0, m |-> <<12106, 13497, 28272, 172>>, e |-> -54] ->
         [s |-> 0, m |-> <<25094, 15649, 32112, 156>>, e |-> -52]
      [] x = [s |-> 0, m |-> <<23489, 15038, 11642, 177>>, e |-> -54] ->
         [s |-> 0, m |-> <<26660, 643, 25716, 155>>, e |-> -52]
      [] x = [s |-> 0, m |-> <<11457, 31121, 6759, 182>>, e |-> -54] ->
         [s |-> 0, m |-> <<13240, 29744, 16041, 154>>, e |-> -52]
      [] x = [s |-> 0, m |-> <<18583, 918, 7591, 187>>, e |-> -54] ->
         [s |-> 0, m |-> <<16792, 960, 4669, 153>>, e |-> -52]
      [] x = [s |-> 0, m |-> <<25833, 22757, 29757, 188>>, e |-> -54] ->
         [s |-> 0, m |-> <<10343, 3667, 22671, 152>>, e |-> -52]
      [] x = [s |-> 0, m |-> <<609, 13401, 2975, 191>>, e |-> -54] ->
         [s |-> 0, m |-> <<22615, 24462, 3415, 152>>, e |-> -52]
      [] x = [s |-> 0, m |-> <<8503, 4981, 876, 192>>, e |-> -54] ->
         [s |-> 0, m |-> <<27347, 3423, 27916, 151>>, e |-> -52]
      [] x = [s |-> 0, m |-> <<29616, 1246, 17203, 193>>, e |-> -54] ->
         [s |-> 0, m |-> <<29767, 13394, 14667, 151>>, e |-> -52]
      [] x = [s |-> 0, m |-> <<19448, 5333, 5428, 198>>, e |-> -54] ->
         [s |-> 0, m |-> <<28005, 26995, 6289, 150>>, e |-> -52]
      [] x = [s |-> 0, m |-> <<20702, 1027, 20961, 203>>, e |-> -54] ->
         [s |-> 0, m |-> <<12682, 5313, 23072, 148>>, e |-> -52]
      [] x = [s |-> 0, m |-> <<4930, 4157, 24561, 203>>, e |-> -54] ->
         [s |-> 0, m |-> <<9600, 5272, 22091, 148>>, e |-> -52]
      [] x = [s |-> 0, m |-> <<27506, 16816, 30864, 212>>, e |-> -54] ->
         [s |-> 0, m |-> <<2728, 4639, 5187, 146>>, e |-> -52]
      [] x = [s |-> 0, m |-> <<21431, 16732, 20422, 213>>, e |-> -54] ->
         [s |-> 0, m |-> <<29426, 19169, 31815, 145>>, e |-> -52]
      [] x = [s |-> 0, m |-> <<3652, 32326, 23539, 214>>, e |-> -54] ->
         [s |-> 0, m |-> <<23052, 18597, 21938, 145>>, e |-> -52]
      [] x = [s |-> 0, m |-> <<9084, 11250, 19554, 218>>, e |-> -54] ->
         [s |-> 0, m |-> <<8572, 18333, 19640, 144>>, e |-> -52]
      [] x = [s |-> 0, m |-> <<9087, 11250, 19554, 218>>, e |-> -54] ->
         [s |-> 0, m |-> <<8571, 18333, 19640, 144>>, e |-> -52]
      [] x = [s |-> 0, m |-> <<25475, 17599, 23660, 218>>, e |-> -54] ->
         [s |-> 0, m |-> <<30941, 8913, 18505, 144>>, e |-> -52]
      [] x = [s |-> 0, m |-> <<29869, 21669, 18583, 221>>, e |-> -54] ->
         [s |-> 0, m |-> <<27920, 10901, 25458, 143>>, e |-> -52]
      [] x = [s |-> 0, m |-> <<9474, 21884, 12227, 226>>, e |-> -54] ->
         [s |-> 0, m |-> <<26249, 26004, 14443, 142>>, e |-> -52]
      [] x = [s |-> 0, m |-> <<18907, 15013, 26504, 251>>, e |-> -54] ->
         [s |-> 0, m |-> <<12772, 7423, 8123, 135>>, e |-> -52]
      [] x = [s |-> 0, m |-> <<22486, 4271, 6625, 254>>, e |-> -54] ->
         [s |-> 0, m |-> <<3581, 5536, 18339, 134>>, e |-> -52]
      [] x = [s |-> 0, m |-> <<8462, 16218, 28266, 133>>, e |-> -53] ->
         [s |-> 0, m |-> <<23616, 29748, 20638, 130>>, e |-> -52]
      [] x = [s |-> 0, m |-> <<8464, 16218, 28266, 133>>, e |-> -53] ->
         [s |-> 0, m |-> <<23615, 29748, 20638, 130>>, e |-> -52]
      [] x = [s |-> 0, m |-> <<7027, 14026, 5805, 137>>, e |-> -53] ->
         [s |-> 0, m |-> <<25132, 13058, 22163, 128>>, e |-> -52]
      [] x = [s |-> 0, m |-> <<6807, 8025, 20756, 146>>, e |-> -53] ->
         [s |-> 0, m |-> <<28195, 27921, 32408, 245>>, e |-> -53]
      [] x = [s |-> 0, m |-> <<13090, 2848, 26269, 147>>, e |-> -53] ->
         [s |-> 0, m |-> <<29014, 20490, 18384, 244>>, e |-> -53]
      [] x = [s |-> 0, m |-> <<13470, 25040, 15022, 149>>, e |-> -53] ->
         [s |-> 0, m |-> <<23166, 17406, 17241, 242>>, e |-> -53]
      [] x = [s |-> 0, m |-> <<1329, 20113, 24075, 152>>, e |-> -53] ->
         [s |-> 0, m |-> <<27600, 22831, 15317, 238>>, e |-> -53]
      [] x = [s |-> 0, m |-> <<22329, 26609, 15022, 161>>, e |-> -53] ->
         [s |-> 0, m |-> <<32196, 4976, 13643, 227>>, e |-> -53]
      [] x = [s |-> 0, m |-> <<2120, 24945, 1367, 163>>, e |-> -53] ->
         [s |-> 0, m |-> <<1591, 3959, 12106, 225>>, e |-> -53]
      [] x = [s |-> 0, m |-> <<4256, 27146, 20035, 172>>, e |-> -53] ->
         [s |-> 0, m |-> <<20666, 16451, 22686, 212>>, e |-> -53]
      [] x = [s |-> 0, m |-> <<30049, 10663, 3106, 174>>, e |-> -53] ->
         [s |-> 0, m |-> <<17240, 22059, 22165, 210>>, e |-> -53]
      [] x = [s |-> 0, m |-> <<27715, 27209, 29994, 183>>, e |-> -53] ->
         [s |-> 0, m |-> <<26235, 12003, 30567, 196>>, e |-> -53]
      [] x = [s |-> 0, m |-> <<19475, 14603, 1236, 185>>, e |-> -53] ->
         [s |-> 0, m |-> <<21420, 25909, 10290, 195>>, e |-> -53]
      [] x = [s |-> 0, m |-> <<17130, 6949, 10169, 189>>, e |-> -53] ->
         [s |-> 0, m |-> <<25809, 4075, 1656, 189>>, e |-> -53]
      [] x = [s |-> 0, m |-> <<5955, 4194, 12127, 199>>, e |-> -53] ->
         [s |-> 0, m |-> <<24744, 7634, 19138, 173>>, e |-> -53]
      [] x = [s |-> 0, m |-> <<11325, 24600, 757, 209>>, e |-> -53] ->
         [s |-> 0, m |-> <<26837, 261, 18442, 157>>, e |-> -53]
      [] x = [s |-> 0, m |-> <<11328, 24600, 757, 209>>, e |-> -53] ->
         [s |-> 0, m |-> <<26832, 261, 18442, 157>>, e |-> -53]
      [] x = [s |-> 0, m |-> <<6560, 5901, 182, 211>>, e |-> -53] ->
         [s |-> 0, m |-> <<30955, 28288, 3139, 154>>, e |-> -53]
      [] x = [s |-> 0, m |-> <<4070, 21669, 16774, 214>>, e |-> -53] ->
         [s |-> 0, m |-> <<23816, 6234, 25879, 147>>, e |-> -53]
      [] x = [s |-> 0, m |-> <<6815, 27746, 4753, 220>>, e |-> -53] ->
         [s |-> 0, m |-> <<13918, 13781, 4065, 137>>, e |-> -53]
      [] x = [s |-> 0, m |-> <<2378, 11687, 30856, 228>>, e |-> -53] ->
         [s |-> 0, m |-> <<26678, 5066, 17344, 237>>, e |-> -54]
      [] x = [s |-> 0, m |-> <<3819, 26054, 12987, 232>>, e |-> -53] ->
         [s |-> 0, m |-> <<14620, 14347, 19318, 221>>, e |-> -54]
      [] x = [s |-> 0, m |-> <<23626, 12185, 17925, 233>>, e |-> -53] ->
         [s |-> 0, m |-> <<32361, 10514, 1215, 216>>, e |-> -54]
      [] x = [s |-> 0, m |-> <<11151, 13949, 32547, 235>>, e |-> -53] ->
         [s |-> 0, m |-> <<28843, 655, 24964, 203>>, e |-> -54]
      [] x = [s |-> 0, m |-> <<4603, 24415, 11194, 239>>, e |-> -53] ->
         [s |-> 0, m |-> <<2947, 15614, 23678, 185>>, e |-> -54]
      [] x = [s |-> 0, m |-> <<6147, 16915, 25839, 240>>, e |-> -53] ->
         [s |-> 0, m |-> <<31753, 21230, 12716, 177>>, e |-> -54]
      [] x = [s |-> 0, m |-> <<28488, 10819, 8373, 243>>, e |-> -53] ->
         [s |-> 0, m |-> <<25327, 31743, 7695, 162>>, e |-> -54]
      [] x = [s |-> 0, m |-> <<20888, 32402, 15916, 244>>, e |-> -53] ->
         [s |-> 0, m |-> <<10426, 22522, 4690, 154>>, e |-> -54]
      [] x = [s |-> 0, m |-> <<6204, 30316, 31643, 244>>, e |-> -53] ->
         [s |-> 0, m |-> <<29478, 18330, 28587, 150>>, e |-> -54]
      [] x = [s |-> 0, m |-> <<3314, 10849, 11392, 245>>, e |-> -53] ->
         [s |-> 0, m |-> <<14466, 27005, 7187, 148>>, e |-> -54]
      [] x = [s |-> 0, m |-> <<12319, 4948, 29331, 245>>, e |-> -53] ->
         [s |-> 0, m |-> <<4723, 13091, 10955, 144>>, e |-> -54]
      [] x = [s |-> 0, m |-> <<11373, 17857, 11404, 246>>, e |-> -53] ->
         [s |-> 0, m |-> <<32661, 20301, 1358, 141>>, e |-> -54]
      [] x = [s |-> 0, m |-> <<3912, 556, 31315, 249>>, e |-> -53] ->
         [s |-> 0, m |-> <<22375, 22156, 31469, 222>>, e |-> -55]
      [] x = [s |-> 0, m |-> <<2894, 25301, 24420, 251>>, e |-> -53] ->
         [s |-> 0, m |-> <<1927, 18203, 31259, 186>>, e |-> -55]
      [] x = [s |-> 0, m |-> <<11287, 21587, 27951, 251>>, e |-> -53] ->
         [s |-> 0, m |-> <<12349, 24293, 18510, 184>>, e |-> -55]
      [] x = [s |-> 0, m |-> <<7542, 11143, 4726, 252>>, e |-> -53] ->
         [s |-> 0, m |-> <<29310, 9028, 31113, 177>>, e |-> -55]
      [] x = [s |-> 0, m |-> <<1561, 13429, 5434, 253>>, e |-> -53] ->
         [s |-> 0, m |-> <<27007, 32285, 16825, 152>>, e |-> -55]
      [] x = [s |-> 0, m |-> <<21969, 21297, 6606, 253>>, e |-> -53] ->
         [s |-> 0, m |-> <<7405, 2122, 17895, 151>>, e |-> -55]
      [] x = [s |-> 0, m |-> <<25295, 1634, 26959, 253>>, e |-> -53] ->
         [s |-> 0, m |-> <<30075, 29868, 21207, 133>>, e |-> -55]
      [] x = [s |-> 0, m |-> <<12490, 2783, 7091, 254>>, e |-> -53] ->
         [s |-> 0, m |-> <<19118, 4987, 29308, 241>>, e |-> -56]
      [] x = [s |-> 0, m |-> <<26693, 9392, 14322, 254>>, e |-> -53] ->
         [s |-> 0, m |-> <<13187, 27250, 13754, 226>>, e |-> -56]
      [] x = [s |-> 0, m |-> <<2815, 5760, 21163, 254>>, e |-> -53] ->
         [s |-> 0, m |-> <<670, 31462, 24298, 210>>, e |-> -56]
      [] x = [s |-> 0, m |-> <<23547, 1920, 32659, 254>>, e |-> -53] ->
         [s |-> 0, m |-> <<4776, 29212, 12427, 181>>, e |-> -56]
      [] x = [s |-> 0, m |-> <<10318, 18978, 9930, 255>>, e |-> -53] ->
         [s |-> 0, m |-> <<25990, 10845, 5074, 151>>, e |-> -56]
      [] x = [s |-> 0, m |-> <<17838, 8745, 11475, 255>>, e |-> -53] ->
         [s |-> 0, m |-> <<25688, 9190, 31168, 145>>, e |-> -56]
      [] x = [s |-> 0, m |-> <<25439, 29351, 15972, 255>>, e |-> -53] ->
         [s |-> 0, m |-> <<4327, 5617, 20236, 129>>, e |-> -56]
      [] x = [s |-> 0, m |-> <<8480, 29067, 19211, 255>>, e |-> -53] ->
         [s |-> 0, m |-> <<15561, 23475, 29255, 232>>, e |-> -57]
      [] x = [s |-> 0, m |-> <<9119, 20997, 20327, 255>>, e |-> -53] ->
         [s |-> 0, m |-> <<19440, 14119, 3286, 223>>, e |-> -57]
      [] x = [s |-> 0, m |-> <<25029, 11351, 25686, 255>>, e |-> -53] ->
         [s |-> 0, m |-> <<12890, 10214, 10386, 168>>, e |-> -57]
      [] x = [s |-> 0, m |-> <<8174, 32677, 31238, 255>>, e |-> -53] ->
         [s |-> 0, m |-> <<10808, 4752, 13508, 156>>, e |-> -58]
      [] x = [s |-> 0, m |-> <<15323, 32764, 32767, 255>>, e |-> -53] ->
         [s |-> 0, m |-> <<30927, 28424, 3588, 170>>, e |-> -70]
      [] x = [s |-> 0, m |-> <<32759, 32767, 32767, 255>>, e |-> -53] ->
         [s |-> 0, m |-> <<1, 0, 0, 192>>, e |-> -77]
      [] x = [s |-> 0, m |-> <<32765, 32767, 32767, 255>>, e |-> -53] ->
         [s |-> 0, m |-> <<19627, 20656, 23019, 221>>, e |-> -78]
      [] x = [s |-> 0, m |-> <<32766, 32767, 32767, 255>>, e |-> -53] ->
         [s |-> 0, m |-> <<15309, 19710, 633, 181>>, e |-> -78]
      [] x = [s |-> 0, m |-> <<32767, 32767, 32767, 255>>, e |-> -53] ->
         [s |-> 0, m |-> <<0, 0, 0, 128>>, e |-> -78]
      [] x = [s |-> 0, m |-> <<0, 0, 0, 128>>, e |-> -52] ->
         Zero
      [] x = [s |-> 0, m |-> <<1, 0, 0, 128>>, e |-> -52] ->
         NaN
      [] x = [s |-> 0, m |-> <<3, 0, 0, 128>>, e |-> -52] ->
         NaN
      [] x = [s |-> 0, m |-> <<4, 0, 0, 128>>, e |-> -52] ->
         NaN
      [] x = [s |-> 0, m |-> <<8494, 10258, 25144, 156>>, e |-> -52] ->
         NaN
      [] x = [s |-> 0, m |-> <<8496, 10258, 25144, 156>>, e |-> -52] ->
         NaN
      [] x = [s |-> 0, m |-> <<15307, 19710, 633, 181>>, e |-> -52] ->
         NaN
      [] x = [s |-> 0, m |-> <<19624, 20656, 23019, 221>>, e |-> -52] ->
         NaN
      [] x = [s |-> 0, m |-> <<19627, 20656, 23019, 221>>, e |-> -52] ->
         NaN
      [] x = [s |-> 0, m |-> <<27159, 17936, 24765, 135>>, e |-> -50] ->
         NaN
      [] x = [s |-> 0, m |-> <<31853, 19655, 18161, 145>>, e |-> -50] ->
         NaN
      [] x = [s |-> 0, m |-> <<23761, 5758, 26550, 129>>, e |-> -49] ->
         NaN
      [] x = [s |-> 0, m |-> <<30503, 30951, 32257, 158>>, e |-> -49] ->
         NaN
      [] x = [s |-> 0, m |-> <<23542, 8575, 28863, 182>>, e |-> -49] ->
         NaN
      [] x = [s |-> 0, m |-> <<24471, 27405, 12433, 158>>, e |-> -48] ->
         NaN

(* f64::sqrt, as libm returns it, on the arguments the specifications reach *)
f64_sqrt(x) ==
    CASE x = [s |-> 1, m |-> <<8576, 30463, 7585, 178>>, e |-> -57] ->
         NaN
      [] x = Zero ->
         Zero
      [] x = [s |-> 0, m |-> <<18944, 17270, 4387, 213>>, e |-> -63] ->
         [s |-> 0, m |-> <<16448, 3247, 19192, 233>>, e |-> -58]
      [] x = [s |-> 0, m |-> <<31232, 7494, 14397, 183>>, e |-> -61] ->
         [s |-> 0, m |-> <<25765, 22578, 23057, 216>>, e |-> -57]
      [] x = [s |-> 0, m |-> <<512, 8573, 848, 231>>, e |-> -61] ->
         [s |-> 0, m |-> <<28457, 6459, 6310, 243>>, e |-> -57]
      [] x = [s |-> 0, m |-> <<27016, 4386, 12863, 129>>, e |-> -56] ->
         [s |-> 0, m |-> <<31167, 27780, 22753, 128>>, e |-> -54]
      [] x = [s |-> 0, m |-> <<24462, 31179, 17507, 161>>, e |-> -56] ->
         [s |-> 0, m |-> <<6129, 28672, 25980, 143>>, e |-> -54]
      [] x = [s |-> 0, m |-> <<5078, 2644, 9443, 174>>, e |-> -56] ->
         [s |-> 0, m |-> <<9389, 27908, 11848, 149>>, e |-> -54]
      [] x = [s |-> 0, m |-> <<9790, 13634, 388, 195>>, e |-> -56] ->
         [s |-> 0, m |-> <<17583, 17756, 32510, 157>>, e |-> -54]
      [] x = [s |-> 0, m |-> <<22534, 3882, 919, 196>>, e |-> -56] ->
         [s |-> 0, m |-> <<19438, 25165, 13213, 158>>, e |-> -54]
      [] x = [s |-> 0, m |-> <<5207, 7228, 23847, 202>>, e |-> -56] ->
         [s |-> 0, m |-> <<3296, 6704, 2864, 161>>, e |-> -54]
      [] x = [s |-> 0, m |-> <<11620, 21950, 21063, 226>>, e |-> -56] ->
         [s |-> 0, m |-> <<25000, 8958, 10618, 170>>, e |-> -54]
      [] x = [s |-> 0, m |-> <<6938, 7020, 27695, 131>>, e |-> -55] ->
         [s |-> 0, m |-> <<21825, 8217, 23533, 183>>, e |-> -54]
      [] x = [s |-> 0, m |-> <<31761, 12332, 28558, 154>>, e |-> -55] ->
         [s |-> 0, m |-> <<21544, 13069, 3795, 199>>, e |-> -54]
      [] x = [s |-> 0, m |-> <<16538, 23512, 15243, 215>>, e |-> -55] ->
         [s |-> 0, m |-> <<9202, 17913, 28171, 234>>, e |-> -54]
      [] x = [s |-> 0, m |-> <<21996, 30785, 26900, 222>>, e |-> -55] ->
         [s |-> 0, m |-> <<15626, 23482, 27361, 238>>, e |-> -54]
      [] x = [s |-> 0, m |-> <<29904, 13518, 17039, 227>>, e |-> -55] ->
         [s |-> 0, m |-> <<17638, 19434, 11149, 241>>, e |-> -54]
      [] x = [s |-> 0, m |-> <<15441, 28926, 18827, 160>>, e |-> -54] ->
         [s |-> 0, m |-> <<31493, 31798, 11962, 143>>, e |-> -53]
      [] x = [s |-> 0, m |-> <<26366, 26996, 7761, 191>>, e |-> -54] ->
         [s |-> 0, m |-> <<1470, 13770, 14925, 156>>, e |-> -53]
      [] x = [s |-> 0, m |-> <<15950, 27039, 3553, 210>>, e |-> -54] ->
         [s |-> 0, m |-> <<12615, 13612, 32556, 163>>, e |-> -53]
      [] x = [s |-> 0, m |-> <<19554, 28810, 8078, 211>>, e |-> -54] ->
         [s |-> 0, m |-> <<18435, 23592, 14322, 164>>, e |-> -53]
      [] x = [s |-> 0, m |-> <<19163, 23867, 15811, 229>>, e |-> -54] ->
         [s |-> 0, m |-> <<3290, 4818, 12706, 171>>, e |-> -53]
      [] x = [s |-> 0, m |-> <<22054, 4176, 9808, 132>>, e |-> -53] ->
         [s |-> 0, m |-> <<7976, 5170, 1124, 184>>, e |-> -53]
      [] x = [s |-> 0, m |-> <<20223, 28752, 15562, 132>>, e |-> -53] ->
         [s |-> 0, m |-> <<10628, 12728, 5125, 184>>, e |-> -53]
      [] x = [s |-> 0, m |-> <<19670, 30552, 26049, 132>>, e |-> -53] ->
         [s |-> 0, m |-> <<19823, 4508, 12410, 184>>, e |-> -53]
      [] x = [s |-> 0, m |-> <<14127, 16063, 27112, 132>>, e |-> -53] ->
         [s |-> 0, m |-> <<14422, 24409, 13147, 184>>, e |-> -53]
      [] x = [s |-> 0, m |-> <<8356, 15762, 3516, 133>>, e |-> -53] ->
         [s |-> 0, m |-> <<9531, 864, 19511, 184>>, e |-> -53]
      [] x = [s |-> 0, m |-> <<12997, 7685, 14969, 135>>, e |-> -53] ->
         [s |-> 0, m |-> <<1867, 4783, 7126, 186>>, e |-> -53]
      [] x = [s |-> 0, m |-> <<1846, 5743, 25614, 151>>, e |-> -53] ->
         [s |-> 0, m |-> <<8590, 29330, 3916, 197>>, e |-> -53]
      [] x = [s |-> 0, m |-> <<12294, 6018, 28508, 212>>, e |-> -53] ->
         [s |-> 0, m |-> <<21966, 2323, 14452, 233>>, e |-> -53]
      [] x = [s |-> 0, m |-> <<31134, 9121, 19304, 222>>, e |-> -53] ->
         [s |-> 0, m |-> <<14761, 11202, 23289, 238>>, e |-> -53]
      [] x = [s |-> 0, m |-> <<28516, 12813, 17749, 232>>, e |-> -53] ->
         [s |-> 0, m |-> <<311, 29558, 32409, 243>>, e |-> -53]
      [] x = [s |-> 0, m |-> <<29372, 14185, 28978, 232>>, e |-> -53] ->
         [s |-> 0, m |-> <<1826, 21041, 5530, 244>>, e |-> -53]
      [] x = [s |-> 0, m |-> <<20208, 8665, 10648, 235>>, e |-> -53] ->
         [s |-> 0, m |-> <<7073, 28106, 14577, 245>>, e |-> -53]
      [] x = [s |-> 0, m |-> <<31576, 12459, 15596, 236>>, e |-> -53] ->
         [s |-> 0, m |-> <<13642, 29354, 1454, 246>>, e |-> -53]
      [] x = [s |-> 0, m |-> <<25641, 1926, 4739, 240>>, e |-> -53] ->
         [s |-> 0, m |-> <<14133, 21015, 30985, 247>>, e |-> -53]
      [] x = [s |-> 0, m |-> <<19381, 4198, 4739, 240>>, e |-> -53] ->
         [s |-> 0, m |-> <<7703, 22188, 30985, 247>>, e |-> -53]
      [] x = [s |-> 0, m |-> <<23462, 5757, 4739, 240>>, e |-> -53] ->
         [s |-> 0, m |-> <<3967, 22993, 30985, 247>>, e |-> -53]
      [] x = [s |-> 0, m |-> <<18373, 17926, 4739, 240>>, e |-> -53] ->
         [s |-> 0, m |-> <<6318, 29275, 30985, 247>>, e |-> -53]
      [] x = [s |-> 0, m |-> <<28713, 13732, 4802, 240>>, e |-> -53] ->
         [s |-> 0, m |-> <<11037, 11486, 31018, 247>>, e |-> -53]
      [] x = [s |-> 0, m |-> <<5663, 9164, 4811, 240>>, e |-> -53] ->
         [s |-> 0, m |-> <<5583, 30301, 31022, 247>>, e |-> -53]
      [] x = [s |-> 0, m |-> <<24298, 3634, 31159, 241>>, e |-> -53] ->
         [s |-> 0, m |-> <<6678, 25351, 28715, 248>>, e |-> -53]
      [] x = [s |-> 0, m |-> <<15836, 19536, 5709, 245>>, e |-> -53] ->
         [s |-> 0, m |-> <<14221, 30068, 17322, 250>>, e |-> -53]
      [] x = [s |-> 0, m |-> <<7344, 20131, 5709, 245>>, e |-> -53] ->
         [s |-> 0, m |-> <<9789, 30372, 17322, 250>>, e |-> -53]
      [] x = [s |-> 0, m |-> <<12782, 20539, 5709, 245>>, e |-> -53] ->
         [s |-> 0, m |-> <<27484, 30580, 17322, 250>>, e |-> -53]
      [] x = [s |-> 0, m |-> <<3069, 23725, 5709, 245>>, e |-> -53] ->
         [s |-> 0, m |-> <<15635, 32208, 17322, 250>>, e |-> -53]
      [] x = [s |-> 0, m |-> <<3917, 6020, 5726, 245>>, e |-> -53] ->
         [s |-> 0, m |-> <<11319, 12861, 17331, 250>>, e |-> -53]
      [] x = [s |-> 0, m |-> <<21441, 16496, 5728, 245>>, e |-> -53] ->
         [s |-> 0, m |-> <<19548, 18929, 17332, 250>>, e |-> -53]
      [] x = [s |-> 0, m |-> <<17418, 31098, 17171, 247>>, e |-> -53] ->
         [s |-> 0, m |-> <<16750, 2416, 23801, 251>>, e |-> -53]
      [] x = [s |-> 0, m |-> <<4981, 21142, 17194, 247>>, e |-> -53] ->
         [s |-> 0, m |-> <<5008, 20135, 23812, 251>>, e |-> -53]
      [] x = [s |-> 0, m |-> <<10834, 17736, 20121, 247>>, e |-> -53] ->
         [s |-> 0, m |-> <<32356, 25285, 25300, 251>>, e |-> -53]
      [] x = [s |-> 0, m |-> <<20952, 6708, 20173, 247>>, e |-> -53] ->
         [s |-> 0, m |-> <<27783, 1216, 25327, 251>>, e |-> -53]
      [] x = [s |-> 0, m |-> <<11552, 3486, 20929, 247>>, e |-> -53] ->
         [s |-> 0, m |-> <<7124, 10634, 25711, 251>>, e |-> -53]
      [] x = [s |-> 0, m |-> <<23682, 2653, 22232, 247>>, e |-> -53] ->
         [s |-> 0, m |-> <<19697, 22687, 26373, 251>>, e |-> -53]
      [] x = [s |-> 0, m |-> <<3534, 13158, 22760, 247>>, e |-> -53] ->
         [s |-> 0, m |-> <<363, 8168, 26642, 251>>, e |-> -53]
      [] x = [s |-> 0, m |-> <<3623, 26493, 25127, 250>>, e |-> -53] ->
         [s |-> 0, m |-> <<25442, 6296, 12121, 253>>, e |-> -53]
      [] x = [s |-> 0, m |-> <<30939, 13603, 25144, 250>>, e |-> -53] ->
         [s |-> 0, m |-> <<13084, 19060, 12129, 253>>, e |-> -53]
      [] x = [s |-> 0, m |-> <<21924, 31477, 31272, 250>>, e |-> -53] ->
         [s |-> 0, m |-> <<2584, 2710, 15225, 253>>, e |-> -53]
      [] x = [s |-> 0, m |-> <<9182, 2905, 2018, 252>>, e |-> -53] ->
         [s |-> 0, m |-> <<3290, 30776, 758, 254>>, e |-> -53]
      [] x = [s |-> 0, m |-> <<12812, 14322, 2039, 252>>, e |-> -53] ->
         [s |-> 0, m |-> <<13121, 22822, 769, 254>>, e |-> -53]
      [] x = [s |-> 0, m |-> <<2590, 3364, 32430, 252>>, e |-> -53] ->
         [s |-> 0, m |-> <<1980, 6583, 16069, 254>>, e |-> -53]
      [] x = [s |-> 0, m |-> <<10897, 21025, 32456, 252>>, e |-> -53] ->
         [s |-> 0, m |-> <<19859, 17992, 16082, 254>>, e |-> -53]
      [] x = [s |-> 0, m |-> <<14943, 14683, 32678, 252>>, e |-> -53] ->
         [s |-> 0, m |-> <<9158, 3580, 16194, 254>>, e |-> -53]
      [] x = [s |-> 0, m |-> <<16850, 26854, 302, 253>>, e |-> -53] ->
         [s |-> 0, m |-> <<6830, 14858, 16391, 254>>, e |-> -53]
      [] x = [s |-> 0, m |-> <<18767, 18438, 25103, 253>>, e |-> -53] ->
         [s |-> 0, m |-> <<28156, 19205, 28855, 254>>, e |-> -53]
      [] x = [s |-> 0, m |-> <<26421, 19555, 25103, 253>>, e |-> -53] ->
         [s |-> 0, m |-> <<30455, 19766, 28855, 254>>, e |-> -53]
      [] x = [s |-> 0, m |-> <<18179, 20322, 25103, 253>>, e |-> -53] ->
         [s |-> 0, m |-> <<32354, 20151, 28855, 254>>, e |-> -53]
      [] x = [s |-> 0, m |-> <<31570, 26306, 25103, 253>>, e |-> -53] ->
         [s |-> 0, m |-> <<10911, 23157, 28855, 254>>, e |-> -53]
      [] x = [s |-> 0, m |-> <<31782, 23584, 25134, 253>>, e |-> -53] ->
         [s |-> 0, m |-> <<16938, 7636, 28871, 254>>, e |-> -53]
      [] x = [s |-> 0, m |-> <<7766, 2507, 25139, 253>>, e |-> -53] ->
         [s |-> 0, m |-> <<65, 13795, 28873, 254>>, e |-> -53]
      [] x = [s |-> 0, m |-> <<30997, 8535, 13600, 254>>, e |-> -53] ->
         [s |-> 0, m |-> <<24941, 26611, 6759, 255>>, e |-> -53]
      [] x = [s |-> 0, m |-> <<31357, 13174, 13639, 254>>, e |-> -53] ->
         [s |-> 0, m |-> <<32083, 14540, 6779, 255>>, e |-> -53]
      [] x = [s |-> 0, m |-> <<18649, 6331, 4714, 255>>, e |-> -53] ->
         [s |-> 0, m |-> <<21891, 11452, 18729, 255>>, e |-> -53]
      [] x = [s |-> 0, m |-> <<7099, 25538, 6910, 255>>, e |-> -53] ->
         [s |-> 0, m |-> <<5479, 13482, 19829, 255>>, e |-> -53]
      [] x = [s |-> 0, m |-> <<32230, 10084, 6921, 255>>, e |-> -53] ->
         [s |-> 0, m |-> <<31696, 22405, 19834, 255>>, e |-> -53]
      [] x = [s |-> 0, m |-> <<28054, 31131, 6995, 255>>, e |-> -53] ->
         [s |-> 0, m |-> <<2460, 2047, 19872, 255>>, e |-> -53]
      [] x = [s |-> 0, m |-> <<29026, 12799, 6996, 255>>, e |-> -53] ->
         [s |-> 0, m |-> <<6661, 9276, 19872, 255>>, e |-> -53]
      [] x = [s |-> 0, m |-> <<15810, 14649, 6996, 255>>, e |-> -53] ->
         [s |-> 0, m |-> <<13942, 10202, 19872, 255>>, e |-> -53]
      [] x = [s |-> 0, m |-> <<17572, 17344, 6996, 255>>, e |-> -53] ->
         [s |-> 0, m |-> <<887, 11552, 19872, 255>>, e |-> -53]
      [] x = [s |-> 0, m |-> <<20782, 20649, 12969, 255>>, e |-> -53] ->
         [s |-> 0, m |-> <<11872, 31696, 22862, 255>>, e |-> -53]
      [] x = [s |-> 0, m |-> <<14730, 21978, 12969, 255>>, e |-> -53] ->
         [s |-> 0, m |-> <<18199, 32361, 22862, 255>>, e |-> -53]
      [] x = [s |-> 0, m |-> <<13246, 22890, 12969, 255>>, e |-> -53] ->
         [s |-> 0, m |-> <<2352, 50, 22863, 255>>, e |-> -53]
      [] x = [s |-> 0, m |-> <<3887, 30008, 12969, 255>>, e |-> -53] ->
         [s |-> 0, m |-> <<4460, 3613, 22863, 255>>, e |-> -53]
      [] x = [s |-> 0, m |-> <<25894, 22097, 13006, 255>>, e |-> -53] ->
         [s |-> 0, m |-> <<8632, 16753, 22881, 255>>, e |-> -53]
      [] x = [s |-> 0, m |-> <<1461, 27925, 13011, 255>>, e |-> -53] ->
         [s |-> 0, m |-> <<32016, 3382, 22884, 255>>, e |-> -53]
      [] x = [s |-> 0, m |-> <<25058, 13393, 14349, 255>>, e |-> -53] ->
         [s |-> 0, m |-> <<1622, 21092, 23553, 255>>, e |-> -53]
      [] x = [s |-> 0, m |-> <<13116, 27479, 14349, 255>>, e |-> -53] ->
         [s |-> 0, m |-> <<20047, 28142, 23553, 255>>, e |-> -53]
      [] x = [s |-> 0, m |-> <<24283, 29114, 14352, 255>>, e |-> -53] ->
         [s |-> 0, m |-> <<7380, 12631, 23555, 255>>, e |-> -53]
      [] x = [s |-> 0, m |-> <<205, 29705, 14352, 255>>, e |-> -53] ->
         [s |-> 0, m |-> <<22358, 12926, 23555, 255>>, e |-> -53]
      [] x = [s |-> 0, m |-> <<20760, 29780, 14352, 255>>, e |-> -53] ->
         [s |-> 0, m |-> <<17613, 12964, 23555, 255>>, e |-> -53]
      [] x = [s |-> 0, m |-> <<27212, 29890, 14352, 255>>, e |-> -53] ->
         [s |-> 0, m |-> <<22824, 13019, 23555, 255>>, e |-> -53]
      [] x = [s |-> 0, m |-> <<4009, 15006, 26757, 255>>, e |-> -53] ->
         [s |-> 0, m |-> <<25875, 6240, 29762, 255>>, e |-> -53]
      [] x = [s |-> 0, m |-> <<4752, 26390, 29844, 255>>, e |-> -53] ->
         [s |-> 0, m |-> <<31111, 9021, 31306, 255>>, e |-> -53]
      [] x = [s |-> 0, m |-> <<15637, 12602, 30363, 255>>, e |-> -53] ->
         [s |-> 0, m |-> <<16585, 19861, 31565, 255>>, e |-> -53]
      [] x = [s |-> 0, m |-> <<30292, 31464, 30422, 255>>, e |-> -53] ->
         [s |-> 0, m |-> <<30309, 13046, 31595, 255>>, e |-> -53]
      [] x = [s |-> 0, m |-> <<6410, 30121, 30424, 255>>, e |-> -53] ->
         [s |-> 0, m |-> <<17887, 12379, 31596, 255>>, e |-> -53]
      [] x = [s |-> 0, m |-> <<3658, 11588, 30425, 255>>, e |-> -53] ->
         [s |-> 0, m |-> <<32703, 19497, 31596, 255>>, e |-> -53]
      [] x = [s |-> 0, m |-> <<29318, 6664, 30428, 255>>, e |-> -53] ->
         [s |-> 0, m |-> <<29702, 658, 31598, 255>>, e |-> -53]
      [] x = [s |-> 0, m |-> <<25080, 14050, 30428, 255>>, e |-> -53] ->
         [s |-> 0, m |-> <<11695, 4352, 31598, 255>>, e |-> -53]
      [] x = [s |-> 0, m |-> <<15841, 14249, 30428, 255>>, e |-> -53] ->
         [s |-> 0, m |-> <<23913, 4451, 31598, 255>>, e |-> -53]
      [] x = [s |-> 0, m |-> <<20843, 14845, 30428, 255>>, e |-> -53] ->
         [s |-> 0, m |-> <<27776, 4749, 31598, 255>>, e |-> -53]
      [] x = [s |-> 0, m |-> <<575, 14922, 30428, 255>>, e |-> -53] ->
         [s |-> 0, m |-> <<1433, 4788, 31598, 255>>, e |-> -53]
      [] x = [s |-> 0, m |-> <<18367, 14922, 30428, 255>>, e |-> -53] ->
         [s |-> 0, m |-> <<10330, 4788, 31598, 255>>, e |-> -53]
      [] x = [s |-> 0, m |-> <<17060, 14923, 30428, 255>>, e |-> -53] ->
         [s |-> 0, m |-> <<26063, 4788, 31598, 255>>, e |-> -53]
      [] x = [s |-> 0, m |-> <<10266, 15033, 30428, 255>>, e |-> -53] ->
         [s |-> 0, m |-> <<22917, 4843, 31598, 255>>, e |-> -53]
      [] x = [s |-> 0, m |-> <<16791, 15088, 30428, 255>>, e |-> -53] ->
         [s |-> 0, m |-> <<9921, 4871, 31598, 255>>, e |-> -53]
      [] x = [s |-> 0, m |-> <<31144, 15209, 30428, 255>>, e |-> -53] ->
         [s |-> 0, m |-> <<991, 4932, 31598, 255>>, e |-> -53]
      [] x = [s |-> 0, m |-> <<5017, 2692, 32095, 255>>, e |-> -53] ->
         [s |-> 0, m |-> <<31619, 17508, 32431, 255>>, e |-> -53]
      [] x = [s |-> 0, m |-> <<8849, 2703, 32095, 255>>, e |-> -53] ->
         [s |-> 0, m |-> <<17158, 17514, 32431, 255>>, e |-> -53]
      [] x = [s |-> 0, m |-> <<29475, 2710, 32095, 255>>, e |-> -53] ->
         [s |-> 0, m |-> <<11092, 17518, 32431, 255>>, e |-> -53]
      [] x = [s |-> 0, m |-> <<14642, 2770, 32095, 255>>, e |-> -53] ->
         [s |-> 0, m |-> <<3715, 17548, 32431, 255>>, e |-> -53]
      [] x = [s |-> 0, m |-> <<32137, 12850, 32095, 255>>, e |-> -53] ->
         [s |-> 0, m |-> <<19086, 22588, 32431, 255>>, e |-> -53]
      [] x = [s |-> 0, m |-> <<16300, 14271, 32095, 255>>, e |-> -53] ->
         [s |-> 0, m |-> <<28484, 23298, 32431, 255>>, e |-> -53]
      [] x = [s |-> 0, m |-> <<28957, 19574, 32382, 255>>, e |-> -53] ->
         [s |-> 0, m |-> <<29925, 9714, 32575, 255>>, e |-> -53]
      [] x = [s |-> 0, m |-> <<5075, 24973, 32382, 255>>, e |-> -53] ->
         [s |-> 0, m |-> <<3631, 12414, 32575, 255>>, e |-> -53]
      [] x = [s |-> 0, m |-> <<7457, 30475, 32383, 255>>, e |-> -53] ->
         [s |-> 0, m |-> <<19199, 31549, 32575, 255>>, e |-> -53]
      [] x = [s |-> 0, m |-> <<3159, 30701, 32383, 255>>, e |-> -53] ->
         [s |-> 0, m |-> <<17134, 31662, 32575, 255>>, e |-> -53]
      [] x = [s |-> 0, m |-> <<1165, 30730, 32383, 255>>, e |-> -53] ->
         [s |-> 0, m |-> <<32532, 31676, 32575, 255>>, e |-> -53]
      [] x = [s |-> 0, m |-> <<6647, 30772, 32383, 255>>, e |-> -53] ->
         [s |-> 0, m |-> <<2521, 31698, 32575, 255>>, e |-> -53]
      [] x = [s |-> 0, m |-> <<17404, 18131, 12441, 128>>, e |-> -52] ->
         [s |-> 0, m |-> <<7995, 5581, 6216, 128>>, e |-> -52]
      [] x = [s |-> 0, m |-> <<27256, 31533, 82, 132>>, e |-> -52] ->
         [s |-> 0, m |-> <<24033, 22764, 32304, 129>>, e |-> -52]
      [] x = [s |-> 0, m |-> <<18440, 14807, 110, 132>>, e |-> -52] ->
         [s |-> 0, m |-> <<2335, 7520, 32318, 129>>, e |-> -52]
      [] x = [s |-> 0, m |-> <<5004, 27656, 7061, 132>>, e |-> -52] ->
         [s |-> 0, m |-> <<12074, 14440, 2971, 130>>, e |-> -52]
      [] x = [s |-> 0, m |-> <<7417, 7294, 7090, 132>>, e |-> -52] ->
         [s |-> 0, m |-> <<12641, 13170, 2985, 130>>, e |-> -52]
      [] x = [s |-> 0, m |-> <<8456, 15472, 8929, 142>>, e |-> -52] ->
         [s |-> 0, m |-> <<16264, 3737, 31054, 134>>, e |-> -52]
      [] x = [s |-> 0, m |-> <<16319, 22252, 29713, 144>>, e |-> -52] ->
         [s |-> 0, m |-> <<28822, 12505, 6268, 136>>, e |-> -52]
      [] x = [s |-> 0, m |-> <<9590, 11459, 22230, 165>>, e |-> -52] ->
         [s |-> 0, m |-> <<22762, 4190, 20502, 145>>, e |-> -52]
      [] x = [s |-> 0, m |-> <<32233, 8976, 11157, 216>>, e |-> -52] ->
         [s |-> 0, m |-> <<6926, 15351, 13365, 166>>, e |-> -52]
      [] x = [s |-> 0, m |-> <<19742, 28398, 23639, 247>>, e |-> -52] ->
         [s |-> 0, m |-> <<2361, 7895, 2240, 178>>, e |-> -52]
      [] x = [s |-> 0, m |-> <<8910, 18505, 7657, 128>>, e |-> -51] ->
         [s |-> 0, m |-> <<5243, 27797, 6045, 181>>, e |-> -52]
      [] x = [s |-> 0, m |-> <<4228, 6318, 29240, 138>>, e |-> -51] ->
         [s |-> 0, m |-> <<9118, 3173, 18486, 188>>, e |-> -52]
      [] x = [s |-> 0, m |-> <<17332, 12348, 17495, 168>>, e |-> -51] ->
         [s |-> 0, m |-> <<28949, 31905, 23362, 207>>, e |-> -52]
      [] x = [s |-> 0, m |-> <<10675, 7876, 28925, 175>>, e |-> -51] ->
         [s |-> 0, m |-> <<21375, 21461, 6332, 212>>, e |-> -52]
      [] x = [s |-> 0, m |-> <<9204, 12845, 13930, 176>>, e |-> -51] ->
         [s |-> 0, m |-> <<148, 19275, 17045, 212>>, e |-> -52]
      [] x = [s |-> 0, m |-> <<12588, 32214, 1305, 177>>, e |-> -51] ->
         [s |-> 0, m |-> <<15878, 14310, 29167, 212>>, e |-> -52]
      [] x = [s |-> 0, m |-> <<5788, 17472, 30710, 218>>, e |-> -51] ->
         [s |-> 0, m |-> <<18812, 17853, 24393, 236>>, e |-> -52]
      [] x = [s |-> 0, m |-> <<7077, 25479, 8904, 175>>, e |-> -50] ->
         [s |-> 0, m |-> <<6070, 17561, 25639, 149>>, e |-> -51]
      [] x = [s |-> 0, m |-> <<26429, 1709, 20352, 141>>, e |-> -48] ->
         [s |-> 0, m |-> <<12718, 8767, 20919, 134>>, e |-> -50]
      [] x = [s |-> 0, m |-> <<14567, 4093, 7882, 147>>, e |-> -48] ->
         [s |-> 0, m |-> <<7881, 10800, 9293, 137>>, e |-> -50]
      [] x = [s |-> 0, m |-> <<6453, 1236, 25873, 170>>, e |-> -48] ->
         [s |-> 0, m |-> <<22372, 26875, 28012, 147>>, e |-> -50]
      [] x = [s |-> 0, m |-> <<3476, 14213, 11922, 197>>, e |-> -48] ->
         [s |-> 0, m |-> <<29484, 24878, 30868, 158>>, e |-> -50]
      [] x = [s |-> 0, m |-> <<30603, 780, 28295, 205>>, e |-> -48] ->
         [s |-> 0, m |-> <<16478, 27098, 10762, 162>>, e |-> -50]
      [] x = [s |-> 0, m |-> <<3662, 27458, 26371, 206>>, e |-> -48] ->
         [s |-> 0, m |-> <<4988, 29702, 22909, 162>>, e |-> -50]
      [] x = [s |-> 0, m |-> <<19471, 23981, 9512, 208>>, e |-> -48] ->
         [s |-> 0, m |-> <<11102, 12612, 9255, 163>>, e |-> -50]
      [] x = [s |-> 0, m |-> <<14246, 9208, 15879, 208>>, e |-> -48] ->
         [s |-> 0, m |-> <<23833, 7485, 11750, 163>>, e |-> -50]
      [] x = [s |-> 0, m |-> <<1741, 22371, 25204, 208>>, e |-> -48] ->
         [s |-> 0, m |-> <<9661, 14829, 15402, 163>>, e |-> -50]
      [] x = [s |-> 0, m |-> <<28783, 8763, 32285, 214>>, e |-> -48] ->
         [s |-> 0, m |-> <<10802, 14532, 29027, 165>>, e |-> -50]
      [] x = [s |-> 0, m |-> <<7894, 10307, 13744, 216>>, e |-> -48] ->
         [s |-> 0, m |-> <<19698, 11344, 14360, 166>>, e |-> -50]
      [] x = [s |-> 0, m |-> <<9626, 1788, 9579, 228>>, e |-> -48] ->
         [s |-> 0, m |-> <<21957, 16242, 30891, 170>>, e |-> -50]
      [] x = [s |-> 0, m |-> <<11070, 11295, 11984, 149>>, e |-> -46] ->
         [s |-> 0, m |-> <<31618, 17710, 8873, 138>>, e |-> -49]
      [] x = [s |-> 0, m |-> <<987, 15747, 3594, 168>>, e |-> -46] ->
         [s |-> 0, m |-> <<4862, 12971, 22619, 146>>, e |-> -49]
      [] x = [s |-> 0, m |-> <<8429, 24186, 26330, 181>>, e |-> -46] ->
         [s |-> 0, m |-> <<23203, 26146, 17952, 152>>, e |-> -49]
      [] x = [s |-> 0, m |-> <<16156, 6635, 17705, 183>>, e |-> -46] ->
         [s |-> 0, m |-> <<791, 9385, 9004, 153>>, e |-> -49]
      [] x = [s |-> 0, m |-> <<18418, 4542, 26887, 184>>, e |-> -46] ->
         [s |-> 0, m |-> <<9846, 2444, 26490, 153>>, e |-> -49]
      [] x = [s |-> 0, m |-> <<21540, 1497, 30744, 184>>, e |-> -46] ->
         [s |-> 0, m |-> <<16415, 22485, 28094, 153>>, e |-> -49]
      [] x = [s |-> 0, m |-> <<30261, 5537, 621, 185>>, e |-> -46] ->
         [s |-> 0, m |-> <<8981, 28087, 29194, 153>>, e |-> -49]
      [] x = [s |-> 0, m |-> <<2680, 22818, 21209, 185>>, e |-> -46] ->
         [s |-> 0, m |-> <<31840, 30607, 4981, 154>>, e |-> -49]
      [] x = [s |-> 0, m |-> <<26914, 3563, 20502, 207>>, e |-> -46] ->
         [s |-> 0, m |-> <<13915, 7884, 712, 163>>, e |-> -49]
      [] x = [s |-> 0, m |-> <<15389, 25070, 12653, 224>>, e |-> -46] ->
         [s |-> 0, m |-> <<1806, 8771, 15531, 169>>, e |-> -49]
      [] x = [s |-> 0, m |-> <<26402, 5080, 32170, 224>>, e |-> -46] ->
         [s |-> 0, m |-> <<1718, 17544, 22896, 169>>, e |-> -49]
      [] x = [s |-> 0, m |-> <<26540, 5654, 3704, 225>>, e |-> -46] ->
         [s |-> 0, m |-> <<5879, 24804, 24518, 169>>, e |-> -49]
      [] x = [s |-> 0, m |-> <<21132, 168, 6894, 178>>, e |-> -44] ->
         [s |-> 0, m |-> <<32683, 9465, 1077, 151>>, e |-> -48]
      [] x = [s |-> 0, m |-> <<6273, 16062, 989, 181>>, e |-> -44] ->
         [s |-> 0, m |-> <<28211, 25879, 7309, 152>>, e |-> -48]
      [] x = [s |-> 0, m |-> <<18023, 23003, 1910, 191>>, e |-> -44] ->
         [s |-> 0, m |-> <<13959, 12761, 12531, 156>>, e |-> -48]
      [] x = [s |-> 0, m |-> <<24378, 12066, 2979, 191>>, e |-> -44] ->
         [s |-> 0, m |-> <<1505, 23783, 12968, 156>>, e |-> -48]
      [] x = [s |-> 0, m |-> <<11480, 7730, 3712, 191>>, e |-> -44] ->
         [s |-> 0, m |-> <<14784, 20310, 13268, 156>>, e |-> -48]
      [] x = [s |-> 0, m |-> <<24155, 22216, 9416, 191>>, e |-> -44] ->
         [s |-> 0, m |-> <<31368, 10273, 15602, 156>>, e |-> -48]
      [] x = [s |-> 0, m |-> <<3411, 10991, 26705, 194>>, e |-> -44] ->
         [s |-> 0, m |-> <<5138, 21499, 29896, 157>>, e |-> -48]
      [] x = [s |-> 0, m |-> <<25630, 30803, 553, 198>>, e |-> -44] ->
         [s |-> 0, m |-> <<3047, 13821, 6710, 159>>, e |-> -48]
      [] x = [s |-> 0, m |-> <<24101, 31840, 8786, 198>>, e |-> -44] ->
         [s |-> 0, m |-> <<19018, 1132, 10019, 159>>, e |-> -48]
      [] x = [s |-> 0, m |-> <<25134, 17527, 12580, 200>>, e |-> -44] ->
         [s |-> 0, m |-> <<1368, 26256, 5029, 160>>, e |-> -48]
      [] x = [s |-> 0, m |-> <<13932, 4857, 7770, 203>>, e |-> -44] ->
         [s |-> 0, m |-> <<31340, 11374, 9491, 161>>, e |-> -48]
      [] x = [s |-> 0, m |-> <<24412, 7108, 10246, 214>>, e |-> -44] ->
         [s |-> 0, m |-> <<15059, 31207, 20517, 165>>, e |-> -48]
      [] x = [s |-> 0, m |-> <<24434, 31472, 30810, 210>>, e |-> -43] ->
         [s |-> 0, m |-> <<6826, 6566, 12469, 232>>, e |-> -48]
      [] x = [s |-> 0, m |-> <<23501, 14453, 27320, 213>>, e |-> -43] ->
         [s |-> 0, m |-> <<20756, 18008, 31748, 233>>, e |-> -48]
      [] x = [s |-> 0, m |-> <<30363, 6875, 9628, 223>>, e |-> -43] ->
         [s |-> 0, m |-> <<22424, 25238, 2893, 239>>, e |-> -48]
      [] x = [s |-> 0, m |-> <<19647, 15253, 9730, 223>>, e |-> -43] ->
         [s |-> 0, m |-> <<1964, 16854, 2948, 239>>, e |-> -48]
      [] x = [s |-> 0, m |-> <<28530, 22968, 9800, 223>>, e |-> -43] ->
         [s |-> 0, m |-> <<15883, 3792, 2986, 239>>, e |-> -48]
      [] x = [s |-> 0, m |-> <<10698, 16594, 10350, 223>>, e |-> -43] ->
         [s |-> 0, m |-> <<24412, 14891, 3280, 239>>, e |-> -48]
      [] x = [s |-> 0, m |-> <<5055, 19368, 21328, 223>>, e |-> -43] ->
         [s |-> 0, m |-> <<2584, 8731, 9155, 239>>, e |-> -48]
      [] x = [s |-> 0, m |-> <<16642, 5601, 29678, 226>>, e |-> -43] ->
         [s |-> 0, m |-> <<5876, 13129, 466, 241>>, e |-> -48]
      [] x = [s |-> 0, m |-> <<32572, 1510, 14034, 227>>, e |-> -43] ->
         [s |-> 0, m |-> <<138, 15455, 9555, 241>>, e |-> -48]
      [] x = [s |-> 0, m |-> <<20412, 17993, 17004, 228>>, e |-> -43] ->
         [s |-> 0, m |-> <<30728, 9911, 28491, 241>>, e |-> -48]
      [] x = [s |-> 0, m |-> <<17438, 24731, 8749, 229>>, e |-> -43] ->
         [s |-> 0, m |-> <<3712, 11855, 8685, 242>>, e |-> -48]
      [] x = [s |-> 0, m |-> <<26869, 11170, 32752, 237>>, e |-> -43] ->
         [s |-> 0, m |-> <<7887, 6702, 27385, 246>>, e |-> -48]
      [] x = [s |-> 0, m |-> <<2170, 18668, 10325, 238>>, e |-> -43] ->
         [s |-> 0, m |-> <<22385, 386, 32746, 246>>, e |-> -48]
      [] x = [s |-> 0, m |-> <<25762, 17638, 13063, 238>>, e |-> -43] ->
         [s |-> 0, m |-> <<24902, 24825, 1396, 247>>, e |-> -48]
      [] x = [s |-> 0, m |-> <<1944, 15599, 23851, 240>>, e |-> -43] ->
         [s |-> 0, m |-> <<30449, 9666, 8078, 248>>, e |-> -48]
      [] x = [s |-> 0, m |-> <<28250, 21781, 13625, 241>>, e |-> -43] ->
         [s |-> 0, m |-> <<8694, 4153, 19693, 248>>, e |-> -48]
      [] x = [s |-> 0, m |-> <<18768, 6477, 24391, 154>>, e |-> -42] ->
         [s |-> 0, m |-> <<17595, 21807, 24193, 140>>, e |-> -47]
      [] x = [s |-> 0, m |-> <<32500, 27290, 2342, 155>>, e |-> -42] ->
         [s |-> 0, m |-> <<9528, 25833, 29065, 140>>, e |-> -47]
      [] x = [s |-> 0, m |-> <<16686, 27958, 3717, 155>>, e |-> -42] ->
         [s |-> 0, m |-> <<26348, 12102, 29690, 140>>, e |-> -47]
      [] x = [s |-> 0, m |-> <<22530, 1330, 5722, 155>>, e |-> -42] ->
         [s |-> 0, m |-> <<31088, 19269, 30600, 140>>, e |-> -47]
      [] x = [s |-> 0, m |-> <<16448, 1983, 15410, 159>>, e |-> -42] ->
         [s |-> 0, m |-> <<32593, 9464, 28549, 142>>, e |-> -47]
      [] x = [s |-> 0, m |-> <<10250, 26188, 21782, 160>>, e |-> -42] ->
         [s |-> 0, m |-> <<9027, 29414, 13281, 143>>, e |-> -47]
      [] x = [s |-> 0, m |-> <<20684, 5937, 12828, 161>>, e |-> -42] ->
         [s |-> 0, m |-> <<31215, 17055, 23897, 143>>, e |-> -47]
      [] x = [s |-> 0, m |-> <<21279, 15160, 12402, 163>>, e |-> -42] ->
         [s |-> 0, m |-> <<28165, 7689, 20033, 144>>, e |-> -47]

(* f64::log10, as libm returns it, on the arguments the specifications reach *)
f64_log10(x) ==
    CASE x = [s |-> 0, m |-> <<31931, 20517, 15552, 175>>, e |-> -61] ->
         [s |-> 1, m |-> <<11368, 30983, 20479, 164>>, e |-> -51]
      [] x = [s |-> 0, m |-> <<27340, 13427, 18144, 175>>, e |-> -61] ->
         [s |-> 1, m |-> <<20441, 16529, 20069, 164>>, e |-> -51]
      [] x = [s |-> 0, m |-> <<21316, 588, 24906, 185>>, e |-> -61] ->
         [s |-> 1, m |-> <<10550, 17055, 1368, 163>>, e |-> -51]
      [] x = [s |-> 0, m |-> <<8204, 27517, 17842, 158>>, e |-> -60] ->
         [s |-> 1, m |-> <<8592, 9723, 5869, 148>>, e |-> -51]
      [] x = [s |-> 0, m |-> <<23192, 14032, 6149, 189>>, e |-> -57] ->
         [s |-> 1, m |-> <<16586, 4019, 30795, 170>>, e |-> -52]
      [] x = [s |-> 0, m |-> <<18274, 7150, 16100, 215>>, e |-> -52] ->
         [s |-> 0, m |-> <<20219, 20384, 21270, 231>>, e |-> -55]
      [] x = [s |-> 0, m |-> <<1767, 12553, 16045, 237>>, e |-> -52] ->
         [s |-> 0, m |-> <<25340, 24264, 14371, 137>>, e |-> -54]
      [] x = [s |-> 0, m |-> <<24429, 14781, 11067, 171>>, e |-> -51] ->
         [s |-> 0, m |-> <<14996, 26516, 31739, 218>>, e |-> -54]
      [] x = [s |-> 0, m |-> <<14110, 7646, 28190, 222>>, e |-> -51] ->
         [s |-> 0, m |-> <<27671, 5388, 23406, 138>>, e |-> -53]

(* f64::atan2, y.atan2(x), as libm returns it *)
f64_atan2(y, x) ==
    CASE y = [s |-> 1, m |-> <<14170, 24499, 1236, 231>>, e |-> -48] /\ x = [s |-> 1, m |-> <<17340, 22830, 32149, 154>>, e |-> -49] ->
         [s |-> 1, m |-> <<362, 25669, 15865, 242>>, e |-> -52]
      [] y = [s |-> 1, m |-> <<1105, 17035, 9030, 220>>, e |-> -48] /\ x = [s |-> 0, m |-> <<1749, 29641, 2504, 149>>, e |-> -48] ->
         [s |-> 1, m |-> <<21366, 18516, 26623, 249>>, e |-> -53]
      [] y = [s |-> 1, m |-> <<5361, 1063, 24929, 214>>, e |-> -48] /\ x = [s |-> 0, m |-> <<7295, 8191, 2490, 155>>, e |-> -48] ->
         [s |-> 1, m |-> <<22789, 15929, 734, 242>>, e |-> -53]
      [] y = [s |-> 1, m |-> <<16750, 29159, 27198, 213>>, e |-> -48] /\ x = [s |-> 0, m |-> <<5801, 10848, 13535, 155>>, e |-> -48] ->
         [s |-> 1, m |-> <<13624, 21616, 7539, 241>>, e |-> -53]
      [] y = [s |-> 1, m |-> <<17704, 10170, 14909, 212>>, e |-> -48] /\ x = [s |-> 0, m |-> <<8102, 28575, 22949, 155>>, e |-> -48] ->
         [s |-> 1, m |-> <<24488, 24573, 7159, 240>>, e |-> -53]
      [] y = [s |-> 1, m |-> <<27879, 24909, 27264, 202>>, e |-> -48] /\ x = [s |-> 1, m |-> <<24550, 26043, 1018, 219>>, e |-> -49] ->
         [s |-> 1, m |-> <<5360, 6177, 7082, 132>>, e |-> -51]
      [] y = [s |-> 1, m |-> <<20045, 17222, 29191, 191>>, e |-> -48] /\ x = [s |-> 0, m |-> <<272, 31826, 4101, 213>>, e |-> -49] ->
         [s |-> 1, m |-> <<13462, 21321, 5749, 136>>, e |-> -52]
      [] y = [s |-> 1, m |-> <<1913, 16141, 791, 191>>, e |-> -48] /\ x = [s |-> 0, m |-> <<11624, 23024, 28451, 135>>, e |-> -48] ->
         [s |-> 1, m |-> <<11266, 27642, 27958, 243>>, e |-> -53]
      [] y = [s |-> 1, m |-> <<982, 5090, 22162, 228>>, e |-> -49] /\ x = [s |-> 0, m |-> <<15616, 3670, 19199, 168>>, e |-> -49] ->
         [s |-> 1, m |-> <<28724, 31698, 16170, 239>>, e |-> -53]
      [] y = [s |-> 1, m |-> <<27225, 12424, 28775, 213>>, e |-> -49] /\ x = [s |-> 0, m |-> <<16705, 5578, 21723, 233>>, e |-> -49] ->
         [s |-> 1, m |-> <<31298, 4942, 24645, 189>>, e |-> -53]
      [] y = [s |-> 1, m |-> <<19400, 15946, 7521, 239>>, e |-> -51] /\ x = [s |-> 0, m |-> <<5399, 8557, 27080, 133>>, e |-> -52] ->
         [s |-> 1, m |-> <<1432, 5727, 4983, 166>>, e |-> -52]
      [] y = [s |-> 1, m |-> <<20786, 11524, 19360, 145>>, e |-> -51] /\ x = [s |-> 0, m |-> <<13572, 10360, 12984, 157>>, e |-> -49] ->
         [s |-> 1, m |-> <<29692, 25254, 23209, 232>>, e |-> -55]
      [] y = [s |-> 1, m |-> <<1040, 1749, 8458, 176>>, e |-> -52] /\ x = [s |-> 0, m |-> <<1830, 1652, 17185, 167>>, e |-> -49] ->
         [s |-> 1, m |-> <<15074, 10798, 29642, 133>>, e |-> -55]
      [] y = [s |-> 1, m |-> <<23264, 18529, 28311, 164>>, e |-> -52] /\ x = [s |-> 0, m |-> <<12764, 14848, 27867, 192>>, e |-> -57] ->
         [s |-> 1, m |-> <<10907, 15080, 12615, 196>>, e |-> -52]
      [] y = [s |-> 1, m |-> <<31822, 23688, 30834, 157>>, e |-> -52] /\ x = [s |-> 0, m |-> <<25901, 140, 31085, 167>>, e |-> -49] ->
         [s |-> 1, m |-> <<24959, 21590, 21161, 239>>, e |-> -56]
      [] y = [s |-> 1, m |-> <<25622, 30275, 24281, 151>>, e |-> -52] /\ x = [s |-> 0, m |-> <<22152, 15427, 29518, 222>>, e |-> -56] ->
         [s |-> 1, m |-> <<225, 30124, 11243, 189>>, e |-> -52]
      [] y = [s |-> 1, m |-> <<24601, 25551, 27383, 146>>, e |-> -52] /\ x = [s |-> 1, m |-> <<2570, 6461, 25829, 211>>, e |-> -105] ->
         [s |-> 1, m |-> <<11545, 10376, 2029, 201>>, e |-> -52]
      [] y = [s |-> 1, m |-> <<28189, 29767, 27320, 146>>, e |-> -52] /\ x = [s |-> 1, m |-> <<2570, 6461, 25829, 211>>, e |-> -105] ->
         [s |-> 1, m |-> <<11545, 10376, 2029, 201>>, e |-> -52]
      [] y = [s |-> 1, m |-> <<7820, 8651, 27289, 146>>, e |-> -52] /\ x = [s |-> 1, m |-> <<2570, 6461, 25829, 211>>, e |-> -105] ->
         [s |-> 1, m |-> <<11545, 10376, 2029, 201>>, e |-> -52]
      [] y = [s |-> 1, m |-> <<16465, 12451, 16462, 145>>, e |-> -52] /\ x = [s |-> 0, m |-> <<17414, 13965, 29311, 241>>, e |-> -48] ->
         [s |-> 1, m |-> <<18207, 3507, 29967, 153>>, e |-> -57]
      [] y = [s |-> 1, m |-> <<16214, 8290, 7470, 139>>, e |-> -52] /\ x = [s |-> 0, m |-> <<3097, 10023, 29023, 129>>, e |-> -56] ->
         [s |-> 1, m |-> <<17151, 27867, 19895, 193>>, e |-> -52]
      [] y = [s |-> 1, m |-> <<31378, 3705, 31027, 130>>, e |-> -52] /\ x = [s |-> 0, m |-> <<15067, 6629, 5075, 168>>, e |-> -49] ->
         [s |-> 1, m |-> <<5761, 2518, 23862, 198>>, e |-> -56]
      [] y = [s |-> 1, m |-> <<30204, 28158, 285, 128>>, e |-> -52] /\ x = [s |-> 0, m |-> <<25799, 27631, 18390, 203>>, e |-> -54] ->
         [s |-> 1, m |-> <<24714, 16475, 20555, 152>>, e |-> -52]
      [] y = [s |-> 1, m |-> <<12450, 23726, 1100, 239>>, e |-> -53] /\ x = [s |-> 1, m |-> <<29545, 5564, 17470, 138>>, e |-> -53] ->
         [s |-> 1, m |-> <<26596, 17480, 4817, 134>>, e |-> -51]
      [] y = [s |-> 1, m |-> <<21119, 23995, 22612, 233>>, e |-> -53] /\ x = [s |-> 0, m |-> <<23336, 18910, 25055, 204>>, e |-> -54] ->
         [s |-> 1, m |-> <<14230, 7038, 6806, 148>>, e |-> -52]
      [] y = [s |-> 1, m |-> <<25497, 31443, 20378, 230>>, e |-> -53] /\ x = [s |-> 0, m |-> <<9748, 29843, 16106, 234>>, e |-> -57] ->
         [s |-> 1, m |-> <<20462, 23438, 30756, 192>>, e |-> -52]
      [] y = [s |-> 1, m |-> <<20885, 638, 5675, 227>>, e |-> -53] /\ x = [s |-> 0, m |-> <<16024, 6956, 14966, 181>>, e |-> -55] ->
         [s |-> 1, m |-> <<22919, 5766, 27311, 175>>, e |-> -52]
      [] y = [s |-> 1, m |-> <<4261, 9822, 26573, 226>>, e |-> -53] /\ x = [s |-> 0, m |-> <<13020, 12306, 22393, 200>>, e |-> -52] ->
         [s |-> 1, m |-> <<18098, 19759, 22153, 131>>, e |-> -53]
      [] y = [s |-> 1, m |-> <<5708, 19453, 5419, 223>>, e |-> -53] /\ x = [s |-> 1, m |-> <<2570, 6461, 25829, 211>>, e |-> -105] ->
         [s |-> 1, m |-> <<11545, 10376, 2029, 201>>, e |-> -52]
      [] y = [s |-> 1, m |-> <<21231, 16346, 5371, 223>>, e |-> -53] /\ x = [s |-> 1, m |-> <<2570, 6461, 25829, 211>>, e |-> -105] ->
         [s |-> 1, m |-> <<11545, 10376, 2029, 201>>, e |-> -52]
      [] y = [s |-> 1, m |-> <<23431, 30988, 5275, 223>>, e |-> -53] /\ x = [s |-> 1, m |-> <<2570, 6461, 25829, 211>>, e |-> -105] ->
         [s |-> 1, m |-> <<11545, 10376, 2029, 201>>, e |-> -52]
      [] y = [s |-> 1, m |-> <<7263, 871, 21672, 214>>, e |-> -53] /\ x = [s |-> 0, m |-> <<18474, 19562, 816, 186>>, e |-> -54] ->
         [s |-> 1, m |-> <<5795, 15069, 23772, 148>>, e |-> -52]
      [] y = [s |-> 1, m |-> <<6246, 19944, 21550, 214>>, e |-> -53] /\ x = [s |-> 0, m |-> <<25779, 21163, 1324, 186>>, e |-> -54] ->
         [s |-> 1, m |-> <<14747, 17009, 23618, 148>>, e |-> -52]
      [] y = [s |-> 1, m |-> <<7369, 30051, 12701, 211>>, e |-> -53] /\ x = [s |-> 0, m |-> <<24883, 3848, 19386, 180>>, e |-> -54] ->
         [s |-> 1, m |-> <<1471, 29729, 12738, 149>>, e |-> -52]
      [] y = [s |-> 1, m |-> <<27090, 7245, 23851, 206>>, e |-> -53] /\ x = [s |-> 0, m |-> <<21961, 7366, 13872, 224>>, e |-> -54] ->
         [s |-> 1, m |-> <<9634, 11676, 13363, 137>>, e |-> -52]
      [] y = [s |-> 1, m |-> <<31674, 4249, 32090, 201>>, e |-> -54] /\ x = [s |-> 1, m |-> <<31938, 32372, 2048, 235>>, e |-> -53] ->
         [s |-> 1, m |-> <<26102, 28083, 3004, 175>>, e |-> -51]
      [] y = [s |-> 1, m |-> <<13876, 17025, 10517, 192>>, e |-> -54] /\ x = [s |-> 1, m |-> <<22882, 7418, 24657, 231>>, e |-> -53] ->
         [s |-> 1, m |-> <<1948, 30891, 29169, 175>>, e |-> -51]
      [] y = [s |-> 1, m |-> <<9182, 1673, 20054, 190>>, e |-> -54] /\ x = [s |-> 0, m |-> <<30365, 23765, 3201, 231>>, e |-> -53] ->
         [s |-> 1, m |-> <<13810, 63, 8891, 200>>, e |-> -54]
      [] y = [s |-> 1, m |-> <<6335, 26560, 4304, 182>>, e |-> -54] /\ x = [s |-> 0, m |-> <<27101, 16448, 23447, 246>>, e |-> -48] ->
         [s |-> 1, m |-> <<26053, 31056, 32013, 188>>, e |-> -59]
      [] y = [s |-> 1, m |-> <<2052, 7744, 9067, 243>>, e |-> -55] /\ x = [s |-> 0, m |-> <<7963, 11732, 27664, 249>>, e |-> -53] ->
         [s |-> 1, m |-> <<17829, 24634, 16872, 244>>, e |-> -55]
      [] y = [s |-> 1, m |-> <<8728, 23886, 4660, 233>>, e |-> -55] /\ x = [s |-> 0, m |-> <<9317, 11470, 29533, 246>>, e |-> -48] ->
         [s |-> 1, m |-> <<21483, 29143, 23904, 241>>, e |-> -60]
      [] y = [s |-> 1, m |-> <<8900, 43, 25056, 224>>, e |-> -55] /\ x = [s |-> 0, m |-> <<30794, 13951, 26798, 159>>, e |-> -53] ->
         [s |-> 1, m |-> <<4463, 232, 3431, 173>>, e |-> -54]
      [] y = [s |-> 1, m |-> <<28860, 3349, 16452, 220>>, e |-> -55] /\ x = [s |-> 0, m |-> <<21152, 11248, 26735, 246>>, e |-> -53] ->
         [s |-> 1, m |-> <<31012, 24613, 459, 225>>, e |-> -55]
      [] y = [s |-> 1, m |-> <<15864, 19122, 15466, 220>>, e |-> -55] /\ x = [s |-> 0, m |-> <<28471, 31546, 26786, 246>>, e |-> -53] ->
         [s |-> 1, m |-> <<22961, 18647, 32208, 224>>, e |-> -55]
      [] y = [s |-> 1, m |-> <<32680, 25143, 30011, 239>>, e |-> -56] /\ x = [s |-> 0, m |-> <<7938, 21891, 16940, 254>>, e |-> -53] ->
         [s |-> 1, m |-> <<3871, 22103, 6758, 240>>, e |-> -56]
      [] y = [s |-> 1, m |-> <<2970, 12833, 27108, 236>>, e |-> -56] /\ x = [s |-> 0, m |-> <<26450, 11331, 18187, 254>>, e |-> -53] ->
         [s |-> 1, m |-> <<6730, 28779, 3490, 237>>, e |-> -56]
      [] y = [s |-> 1, m |-> <<9482, 3361, 3782, 220>>, e |-> -56] /\ x = [s |-> 0, m |-> <<29785, 30466, 23504, 252>>, e |-> -53] ->
         [s |-> 1, m |-> <<20883, 26861, 3270, 222>>, e |-> -56]
      [] y = [s |-> 1, m |-> <<20435, 24946, 19401, 218>>, e |-> -56] /\ x = [s |-> 0, m |-> <<16603, 5728, 24436, 252>>, e |-> -53] ->
         [s |-> 1, m |-> <<28920, 31366, 18023, 220>>, e |-> -56]
      [] y = [s |-> 1, m |-> <<25170, 31570, 25856, 215>>, e |-> -56] /\ x = [s |-> 0, m |-> <<25289, 23165, 26099, 252>>, e |-> -53] ->
         [s |-> 1, m |-> <<14162, 20583, 22935, 217>>, e |-> -56]
      [] y = [s |-> 1, m |-> <<30653, 2333, 24282, 158>>, e |-> -57] /\ x = [s |-> 0, m |-> <<16714, 4126, 31717, 246>>, e |-> -48] ->
         [s |-> 1, m |-> <<7369, 7990, 17904, 164>>, e |-> -62]
      [] y = [s |-> 1, m |-> <<25108, 8288, 25485, 139>>, e |-> -59] /\ x = [s |-> 0, m |-> <<26106, 15467, 6804, 142>>, e |-> -54] ->
         [s |-> 1, m |-> <<30112, 30290, 17911, 251>>, e |-> -58]
      [] y = Zero /\ x = Zero ->
         Zero
      [] y = [s |-> 0, m |-> <<1665, 10021, 17527, 129>>, e |-> -105] /\ x = [s |-> 1, m |-> <<0, 0, 0, 128>>, e |-> -52] ->
         [s |-> 0, m |-> <<11544, 10376, 2029, 201>>, e |-> -51]
      [] y = [s |-> 0, m |-> <<16124, 17444, 17736, 129>>, e |-> -105] /\ x = [s |-> 1, m |-> <<0, 0, 0, 128>>, e |-> -52] ->
         [s |-> 0, m |-> <<11544, 10376, 2029, 201>>, e |-> -51]
      [] y = [s |-> 0, m |-> <<9500, 24295, 17841, 129>>, e |-> -105] /\ x = [s |-> 1, m |-> <<0, 0, 0, 128>>, e |-> -52] ->
         [s |-> 0, m |-> <<11544, 10376, 2029, 201>>, e |-> -51]
      [] y = [s |-> 0, m |-> <<29220, 32317, 28039, 241>>, e |-> -105] /\ x = [s |-> 1, m |-> <<0, 0, 0, 128>>, e |-> -52] ->
         [s |-> 0, m |-> <<11544, 10376, 2029, 201>>, e |-> -51]
      [] y = [s |-> 0, m |-> <<4246, 4896, 28420, 241>>, e |-> -105] /\ x = [s |-> 1, m |-> <<0, 0, 0, 128>>, e |-> -52] ->
         [s |-> 0, m |-> <<11544, 10376, 2029, 201>>, e |-> -51]
      [] y = [s |-> 0, m |-> <<24714, 30936, 29175, 241>>, e |-> -105] /\ x = [s |-> 1, m |-> <<0, 0, 0, 128>>, e |-> -52] ->
         [s |-> 0, m |-> <<11544, 10376, 2029, 201>>, e |-> -51]
      [] y = [s |-> 0, m |-> <<1476, 29189, 22038, 147>>, e |-> -58] /\ x = [s |-> 0, m |-> <<11890, 6136, 15287, 146>>, e |-> -54] ->
         [s |-> 0, m |-> <<26323, 32509, 28952, 128>>, e |-> -56]
      [] y = [s |-> 0, m |-> <<24177, 23792, 14808, 250>>, e |-> -58] /\ x = [s |-> 0, m |-> <<16093, 10530, 27027, 255>>, e |-> -53] ->
         [s |-> 0, m |-> <<7537, 2326, 17868, 250>>, e |-> -58]
      [] y = [s |-> 0, m |-> <<31969, 59, 8215, 134>>, e |-> -57] /\ x = [s |-> 0, m |-> <<30943, 31785, 21398, 155>>, e |-> -53] ->
         [s |-> 0, m |-> <<29808, 24959, 19215, 220>>, e |-> -57]
      [] y = [s |-> 0, m |-> <<28880, 2515, 26712, 134>>, e |-> -57] /\ x = [s |-> 0, m |-> <<9732, 7958, 7790, 157>>, e |-> -54] ->
         [s |-> 0, m |-> <<3551, 19540, 21594, 218>>, e |-> -56]
      [] y = [s |-> 0, m |-> <<24187, 12133, 25696, 212>>, e |-> -57] /\ x = [s |-> 0, m |-> <<26166, 16012, 26048, 254>>, e |-> -53] ->
         [s |-> 0, m |-> <<22146, 26792, 19553, 213>>, e |-> -57]
      [] y = [s |-> 0, m |-> <<30462, 31926, 29754, 212>>, e |-> -57] /\ x = [s |-> 0, m |-> <<10396, 23881, 26013, 254>>, e |-> -53] ->
         [s |-> 0, m |-> <<30586, 20814, 23649, 213>>, e |-> -57]
      [] y = [s |-> 0, m |-> <<10544, 4057, 846, 232>>, e |-> -57] /\ x = [s |-> 0, m |-> <<23796, 18279, 5683, 243>>, e |-> -53] ->
         [s |-> 0, m |-> <<32032, 29846, 31962, 243>>, e |-> -57]
      [] y = [s |-> 0, m |-> <<16816, 7733, 22814, 232>>, e |-> -57] /\ x = [s |-> 0, m |-> <<15654, 22714, 21364, 255>>, e |-> -53] ->
         [s |-> 0, m |-> <<27816, 30779, 24972, 232>>, e |-> -57]
      [] y = [s |-> 0, m |-> <<1641, 12298, 14176, 192>>, e |-> -56] /\ x = [s |-> 0, m |-> <<26171, 32575, 28121, 254>>, e |-> -53] ->
         [s |-> 0, m |-> <<29490, 19168, 23718, 192>>, e |-> -56]
      [] y = [s |-> 0, m |-> <<27175, 21144, 25926, 195>>, e |-> -56] /\ x = [s |-> 0, m |-> <<19285, 26672, 11964, 194>>, e |-> -53] ->
         [s |-> 0, m |-> <<3474, 15209, 8654, 128>>, e |-> -55]
      [] y = [s |-> 0, m |-> <<17063, 28454, 29045, 223>>, e |-> -56] /\ x = [s |-> 1, m |-> <<21543, 10607, 14851, 254>>, e |-> -53] ->
         [s |-> 0, m |-> <<15000, 11353, 1675, 194>>, e |-> -51]
      [] y = [s |-> 0, m |-> <<17067, 27247, 31748, 129>>, e |-> -55] /\ x = [s |-> 1, m |-> <<127, 21751, 29909, 253>>, e |-> -53] ->
         [s |-> 0, m |-> <<13242, 19667, 30027, 192>>, e |-> -51]
      [] y = [s |-> 0, m |-> <<25998, 11248, 29216, 133>>, e |-> -55] /\ x = [s |-> 0, m |-> <<31395, 32333, 31268, 252>>, e |-> -53] ->
         [s |-> 0, m |-> <<31362, 9174, 23627, 134>>, e |-> -55]
      [] y = [s |-> 0, m |-> <<28979, 16144, 28615, 138>>, e |-> -55] /\ x = [s |-> 1, m |-> <<24056, 26662, 729, 253>>, e |-> -53] ->
         [s |-> 0, m |-> <<8690, 17401, 10967, 192>>, e |-> -51]
      [] y = [s |-> 0, m |-> <<27946, 28824, 13464, 146>>, e |-> -55] /\ x = [s |-> 0, m |-> <<31486, 20152, 25809, 253>>, e |-> -53] ->
         [s |-> 0, m |-> <<24041, 25009, 22144, 146>>, e |-> -55]
      [] y = [s |-> 0, m |-> <<10652, 7649, 19433, 154>>, e |-> -55] /\ x = [s |-> 1, m |-> <<2174, 21239, 9692, 252>>, e |-> -53] ->
         [s |-> 0, m |-> <<3072, 12763, 10932, 191>>, e |-> -51]
      [] y = [s |-> 0, m |-> <<22908, 16141, 9433, 142>>, e |-> -54] /\ x = [s |-> 0, m |-> <<17484, 13250, 32358, 174>>, e |-> -56] ->
         [s |-> 0, m |-> <<5919, 1107, 28902, 162>>, e |-> -52]
      [] y = [s |-> 0, m |-> <<20191, 6300, 17993, 153>>, e |-> -54] /\ x = [s |-> 0, m |-> <<17496, 5397, 11127, 242>>, e |-> -53] ->
         [s |-> 0, m |-> <<22807, 16827, 2718, 157>>, e |-> -54]
      [] y = [s |-> 0, m |-> <<2424, 3688, 17478, 168>>, e |-> -54] /\ x = [s |-> 0, m |-> <<5490, 6569, 1502, 244>>, e |-> -53] ->
         [s |-> 0, m |-> <<7431, 15641, 7412, 170>>, e |-> -54]
      [] y = [s |-> 0, m |-> <<24588, 22596, 26691, 169>>, e |-> -54] /\ x = [s |-> 1, m |-> <<17185, 30419, 12722, 241>>, e |-> -53] ->
         [s |-> 0, m |-> <<12054, 12672, 13607, 179>>, e |-> -51]
      [] y = [s |-> 0, m |-> <<25926, 19568, 7512, 179>>, e |-> -54] /\ x = [s |-> 1, m |-> <<15685, 15401, 7836, 235>>, e |-> -53] ->
         [s |-> 0, m |-> <<31306, 10128, 25144, 177>>, e |-> -51]
      [] y = [s |-> 0, m |-> <<1249, 13051, 20692, 128>>, e |-> -53] /\ x = [s |-> 1, m |-> <<7064, 25317, 16347, 151>>, e |-> -54] ->
         [s |-> 0, m |-> <<883, 13898, 19408, 134>>, e |-> -51]
      [] y = [s |-> 0, m |-> <<10122, 9688, 8783, 143>>, e |-> -53] /\ x = [s |-> 1, m |-> <<8915, 12063, 6631, 195>>, e |-> -53] ->
         [s |-> 0, m |-> <<25495, 7950, 17711, 160>>, e |-> -51]
      [] y = [s |-> 0, m |-> <<24265, 24328, 8812, 143>>, e |-> -53] /\ x = [s |-> 1, m |-> <<6045, 16034, 6671, 195>>, e |-> -53] ->
         [s |-> 0, m |-> <<25495, 7950, 17711, 160>>, e |-> -51]
      [] y = [s |-> 0, m |-> <<4241, 18424, 8827, 143>>, e |-> -53] /\ x = [s |-> 1, m |-> <<211, 22324, 6691, 195>>, e |-> -53] ->
         [s |-> 0, m |-> <<25495, 7950, 17711, 160>>, e |-> -51]
      [] y = [s |-> 0, m |-> <<9649, 14900, 3464, 175>>, e |-> -53] /\ x = [s |-> 1, m |-> <<32133, 10295, 12430, 206>>, e |-> -53] ->
         [s |-> 0, m |-> <<9083, 307, 1028, 156>>, e |-> -51]
      [] y = [s |-> 0, m |-> <<784, 23866, 3507, 175>>, e |-> -53] /\ x = [s |-> 1, m |-> <<32133, 10295, 12430, 206>>, e |-> -53] ->
         [s |-> 0, m |-> <<27568, 6778, 1020, 156>>, e |-> -51]
      [] y = [s |-> 0, m |-> <<3981, 23356, 3593, 175>>, e |-> -53] /\ x = [s |-> 1, m |-> <<32133, 10295, 12430, 206>>, e |-> -53] ->
         [s |-> 0, m |-> <<27943, 23051, 1004, 156>>, e |-> -51]
      [] y = [s |-> 0, m |-> <<19464, 28985, 20633, 194>>, e |-> -53] /\ x = [s |-> 0, m |-> <<23559, 26152, 6296, 141>>, e |-> -106] ->
         [s |-> 0, m |-> <<11544, 10376, 2029, 201>>, e |-> -52]
      [] y = [s |-> 0, m |-> <<32702, 9939, 20920, 194>>, e |-> -53] /\ x = [s |-> 0, m |-> <<23559, 26152, 6296, 141>>, e |-> -106] ->
         [s |-> 0, m |-> <<11544, 10376, 2029, 201>>, e |-> -52]
      [] y = [s |-> 0, m |-> <<12782, 13028, 21064, 194>>, e |-> -53] /\ x = [s |-> 0, m |-> <<23559, 26152, 6296, 141>>, e |-> -106] ->
         [s |-> 0, m |-> <<11544, 10376, 2029, 201>>, e |-> -52]
      [] y = [s |-> 0, m |-> <<31788, 30745, 26681, 196>>, e |-> -53] /\ x = [s |-> 1, m |-> <<11604, 22614, 28054, 146>>, e |-> -53] ->
         [s |-> 0, m |-> <<22203, 7392, 18275, 141>>, e |-> -51]
      [] y = [s |-> 0, m |-> <<3700, 3123, 19942, 198>>, e |-> -53] /\ x = [s |-> 1, m |-> <<32572, 25105, 6508, 139>>, e |-> -54] ->
         [s |-> 0, m |-> <<18832, 15685, 6745, 244>>, e |-> -52]
      [] y = [s |-> 0, m |-> <<1068, 16078, 11081, 202>>, e |-> -53] /\ x = [s |-> 1, m |-> <<21852, 31466, 3558, 205>>, e |-> -55] ->
         [s |-> 0, m |-> <<26619, 931, 27238, 232>>, e |-> -52]
      [] y = [s |-> 0, m |-> <<20865, 20972, 11691, 202>>, e |-> -53] /\ x = [s |-> 1, m |-> <<21852, 31466, 3558, 205>>, e |-> -55] ->
         [s |-> 0, m |-> <<18137, 4010, 27146, 232>>, e |-> -52]
      [] y = [s |-> 0, m |-> <<8476, 15737, 11998, 202>>, e |-> -53] /\ x = [s |-> 1, m |-> <<21852, 31466, 3558, 205>>, e |-> -55] ->
         [s |-> 0, m |-> <<11393, 29800, 27099, 232>>, e |-> -52]
      [] y = [s |-> 0, m |-> <<17273, 26511, 25746, 210>>, e |-> -53] /\ x = [s |-> 1, m |-> <<16610, 23126, 17946, 157>>, e |-> -54] ->
         [s |-> 0, m |-> <<940, 11601, 27536, 246>>, e |-> -52]
      [] y = [s |-> 0, m |-> <<16308, 2807, 15678, 223>>, e |-> -53] /\ x = [s |-> 0, m |-> <<13145, 26731, 14060, 142>>, e |-> -55] ->
         [s |-> 0, m |-> <<19751, 31143, 27440, 180>>, e |-> -52]
      [] y = [s |-> 0, m |-> <<9297, 28572, 21116, 225>>, e |-> -53] /\ x = [s |-> 0, m |-> <<32499, 1221, 18456, 208>>, e |-> -58] ->
         [s |-> 0, m |-> <<21250, 3110, 11985, 197>>, e |-> -52]
      [] y = [s |-> 0, m |-> <<17636, 10194, 26980, 227>>, e |-> -53] /\ x = [s |-> 1, m |-> <<29840, 1753, 20646, 193>>, e |-> -54] ->
         [s |-> 0, m |-> <<19170, 19641, 16274, 252>>, e |-> -52]
      [] y = [s |-> 0, m |-> <<6672, 20344, 23116, 237>>, e |-> -53] /\ x = [s |-> 0, m |-> <<8061, 27148, 11315, 174>>, e |-> -54] ->
         [s |-> 0, m |-> <<30319, 10633, 2305, 156>>, e |-> -52]
      [] y = [s |-> 0, m |-> <<18322, 30718, 22303, 238>>, e |-> -53] /\ x = [s |-> 1, m |-> <<12483, 27768, 19626, 132>>, e |-> -58] ->
         [s |-> 0, m |-> <<17480, 295, 9303, 203>>, e |-> -52]
      [] y = [s |-> 0, m |-> <<5499, 103, 20512, 253>>, e |-> -53] /\ x = [s |-> 0, m |-> <<1570, 27864, 28889, 209>>, e |-> -56] ->
         [s |-> 0, m |-> <<21836, 27808, 28457, 187>>, e |-> -52]
      [] y = [s |-> 0, m |-> <<6410, 9569, 24791, 254>>, e |-> -53] /\ x = [s |-> 0, m |-> <<1869, 28473, 30510, 166>>, e |-> -57] ->
         [s |-> 0, m |-> <<25959, 15276, 26961, 195>>, e |-> -52]
      [] y = [s |-> 0, m |-> <<24192, 18997, 1157, 147>>, e |-> -52] /\ x = [s |-> 0, m |-> <<10792, 18939, 5345, 152>>, e |-> -49] ->
         [s |-> 0, m |-> <<32739, 19748, 5909, 246>>, e |-> -56]
      [] y = [s |-> 0, m |-> <<13318, 3114, 25649, 153>>, e |-> -52] /\ x = [s |-> 1, m |-> <<31507, 15511, 17052, 251>>, e |-> -55] ->
         [s |-> 0, m |-> <<32419, 27061, 28675, 226>>, e |-> -52]
      [] y = [s |-> 0, m |-> <<11248, 6927, 25868, 153>>, e |-> -52] /\ x = [s |-> 1, m |-> <<31182, 27872, 17410, 251>>, e |-> -55] ->
         [s |-> 0, m |-> <<32419, 27061, 28675, 226>>, e |-> -52]
      [] y = [s |-> 0, m |-> <<11124, 32026, 26303, 153>>, e |-> -52] /\ x = [s |-> 1, m |-> <<14777, 18695, 18123, 251>>, e |-> -55] ->
         [s |-> 0, m |-> <<32419, 27061, 28675, 226>>, e |-> -52]
      [] y = [s |-> 0, m |-> <<9409, 13137, 11448, 168>>, e |-> -52] /\ x = [s |-> 0, m |-> <<23559, 26152, 6296, 141>>, e |-> -106] ->
         [s |-> 0, m |-> <<11544, 10376, 2029, 201>>, e |-> -52]
      [] y = [s |-> 0, m |-> <<19780, 1078, 11573, 168>>, e |-> -52] /\ x = [s |-> 0, m |-> <<23559, 26152, 6296, 141>>, e |-> -106] ->
         [s |-> 0, m |-> <<11544, 10376, 2029, 201>>, e |-> -52]
      [] y = [s |-> 0, m |-> <<12077, 25655, 11820, 168>>, e |-> -52] /\ x = [s |-> 0, m |-> <<23559, 26152, 6296, 141>>, e |-> -106] ->
         [s |-> 0, m |-> <<11544, 10376, 2029, 201>>, e |-> -52]
      [] y = [s |-> 0, m |-> <<29050, 231, 28557, 237>>, e |-> -52] /\ x = [s |-> 0, m |-> <<7580, 7686, 17241, 133>>, e |-> -50] ->
         [s |-> 0, m |-> <<14931, 23740, 17179, 214>>, e |-> -54]
      [] y = [s |-> 0, m |-> <<9238, 30313, 15338, 252>>, e |-> -52] /\ x = [s |-> 0, m |-> <<2580, 10334, 20649, 236>>, e |-> -53] ->
         [s |-> 0, m |-> <<29137, 6309, 31688, 144>>, e |-> -52]
      [] y = [s |-> 0, m |-> <<19662, 29594, 13343, 240>>, e |-> -51] /\ x = [s |-> 0, m |-> <<13720, 12366, 7140, 171>>, e |-> -52] ->
         [s |-> 0, m |-> <<8331, 2599, 8956, 157>>, e |-> -52]
      [] y = [s |-> 0, m |-> <<4148, 7429, 13489, 142>>, e |-> -50] /\ x = [s |-> 0, m |-> <<7877, 11293, 29979, 195>>, e |-> -52] ->
         [s |-> 0, m |-> <<13375, 23819, 21684, 158>>, e |-> -52]
      [] y = [s |-> 0, m |-> <<31537, 16751, 2698, 146>>, e |-> -50] /\ x = [s |-> 0, m |-> <<11338, 3429, 4433, 192>>, e |-> -52] ->
         [s |-> 0, m |-> <<3652, 8673, 13083, 160>>, e |-> -52]
      [] y = [s |-> 0, m |-> <<10382, 22406, 15644, 151>>, e |-> -50] /\ x = [s |-> 0, m |-> <<16504, 21696, 11653, 183>>, e |-> -52] ->
         [s |-> 0, m |-> <<9362, 23376, 14710, 163>>, e |-> -52]
      [] y = [s |-> 0, m |-> <<1236, 16297, 27117, 167>>, e |-> -50] /\ x = [s |-> 0, m |-> <<19656, 21336, 16115, 211>>, e |-> -50] ->
         [s |-> 0, m |-> <<19285, 17838, 23670, 171>>, e |-> -53]
      [] y = [s |-> 0, m |-> <<6056, 13801, 2883, 224>>, e |-> -49] /\ x = [s |-> 0, m |-> <<16059, 30020, 16924, 182>>, e |-> -49] ->
         [s |-> 0, m |-> <<27697, 26889, 4747, 227>>, e |-> -53]
      [] y = [s |-> 0, m |-> <<19120, 32342, 21096, 235>>, e |-> -49] /\ x = [s |-> 0, m |-> <<29874, 2003, 9621, 189>>, e |-> -49] ->
         [s |-> 0, m |-> <<29113, 546, 28681, 228>>, e |-> -53]
      [] y = [s |-> 0, m |-> <<6935, 5955, 18681, 237>>, e |-> -49] /\ x = [s |-> 0, m |-> <<25572, 9233, 9753, 189>>, e |-> -49] ->
         [s |-> 0, m |-> <<8354, 11464, 29140, 229>>, e |-> -53]
      [] y = [s |-> 0, m |-> <<16067, 11464, 13552, 240>>, e |-> -49] /\ x = [s |-> 0, m |-> <<16161, 20799, 29341, 188>>, e |-> -49] ->
         [s |-> 0, m |-> <<1827, 10160, 20852, 231>>, e |-> -53]

(* ---- end of the libm values ---- *)

(* Angle::refractdelta; the f64 nearest to the literals 1.02, 10.3 and 5.11 *)
REFRACT_A == [s |-> 0, m |-> <<14418, 2621, 18350, 130>>, e |-> -52]
REFRACT_B == [s |-> 0, m |-> <<6554, 13107, 26214, 164>>, e |-> -49]
REFRACT_C == [s |-> 0, m |-> <<15729, 11796, 17039, 163>>, e |-> -50]

(* (1.02 / (d + (10.3 / (d + 5.11))).to_radians().tan()) * 60.0 for d = self.degrees(), *)
(* one definition for each intermediate value                                            *)
refractdelta_sec(q) == CASE IsF64(q) -> from_degminsec(0, 0, FMul(q, Sixty))

refractdelta_tan(t) == CASE IsF64(t) -> refractdelta_sec(FDiv(REFRACT_A, t))

refractdelta_rad(r) == CASE IsF64(r) -> refractdelta_tan(f64_tan(r))

refractdelta_of(d) ==
    refractdelta_rad(to_radians(FAdd(d, FDiv(REFRACT_B, FAdd(d, REFRACT_C)))))

refractdelta(a) == refractdelta_of(degrees(a))

(* refract deciding on self.degrees() instead of self.to_latitude().degrees() *)
refract_by_degrees(a) ==
    IF FGt(degrees(a), Zero) THEN add(a, refractdelta(a)) ELSE a

refract(a) ==
    IF FGt(degrees(to_latitude(a)), Zero) THEN add(a, refractdelta(a)) ELSE a

(* Angle::gst and Angle::ungst; the f64 nearest to the literals 6.697374558, *)
(* 2400.051336, 0.000025862, 1.002737909 and 0.9972695663                   *)
GST0 == [s |-> 0, m |-> <<12440, 7357, 10354, 214>>, e |-> -50]
GST1 == [s |-> 0, m |-> <<21047, 4460, 105, 150>>, e |-> -41]
GST2 == [s |-> 0, m |-> <<3655, 14070, 31004, 216>>, e |-> -68]
SIDEREAL == [s |-> 0, m |-> <<21678, 20403, 11483, 128>>, e |-> -52]
SOLAR == [s |-> 0, m |-> <<16208, 15139, 9863, 255>>, e |-> -53]

(* 6.697374558 + (2400.051336 * t) + (0.000025862 * (t * t)) *)
gst_t0(t) == FAdd(FAdd(GST0, FMul(GST1, t)), FMul(GST2, FMul(t, t)))

gst_at(a, t) == CASE IsF64(t) -> from_decimal(FAdd(gst_t0(t), FMul(decimal(a), SIDEREAL)))

gst(a, date) == gst_at(a, centuries(date))

(* (self - t0) without the factor 0.9972695663 *)
ungst_unscaled(a, t) == CASE IsF64(t) -> sub(a, from_decimal(gst_t0(t)))

ungst_at(a, t) == CASE IsF64(t) -> mul(sub(a, from_decimal(gst_t0(t))), SOLAR)

ungst(a, date) == ungst_at(a, centuries(date))

(* Angle::asin, acos, atan2 are from_radians of the f64 that libm returns; *)
(* r stands for that f64: x.asin() in [-PI/2, PI/2], x.acos() in [0, PI],  *)
(* x.atan2(y) in [-PI, PI]                                                 *)
asin(r) == from_radians(r)
acos(r) == from_radians(r)
atan2(r) == from_radians(r)

(* Coord(Angle, Angle) with the derived PartialEq: field by field *)
from_equatorial(x, y) == <<x, y>>
equatorial(c) == <<c[1], c[2]>>
coord_eq(c, d) == eq(c[1], d[1]) /\ eq(c[2], d[2])

(* Angle::sin, cos, tan *)
sin(x) == f64_sin(radians(x))
cos(x) == f64_cos(radians(x))
tan(x) == f64_tan(radians(x))

(* Angle::asin(x), Angle::acos(x) for an f64 x: from_radians(x.asin()), NaN staying NaN *)
asin_of(x) == IF IsNaN(f64_asin(x)) THEN NaN ELSE asin(f64_asin(x))

acos_of(x) == IF IsNaN(f64_acos(x)) THEN NaN ELSE acos(f64_acos(x))

(* Angle::hourangle_rightas: hour angle = GST(local time, instant) + longitude - right *)
(* ascension; given an hour angle it returns the right ascension                       *)
hourangle_rightas(x, date, t, longi) ==
    IF IsNaN(x) THEN NaN ELSE sub(add(gst(t, date), longi), x)

(* Coord::horizon and Coord::from_horizon evaluate the same three expressions, horizon *)
(* on (de, ha) and from_horizon on (alt, azi):                                         *)
(*   up    = asin(y.sin() * lati.sin() + y.cos() * lati.cos() * x.cos())               *)
(*   round = acos((y.sin() - lati.sin() * up.sin()) / (lati.cos() * up.cos()))         *)
(*   match x.sin() < 0.0 { true => round, false => from_degrees(360.0 - round.degrees()) } *)
horizon_up(y, lati, x) ==
    asin_of(FAdd(FMul(sin(y), sin(lati)), FMul(FMul(cos(y), cos(lati)), cos(x))))

horizon_round(y, lati, up) ==
    acos_of(FDiv(FSub(sin(y), FMul(sin(lati), sin(up))), FMul(cos(lati), cos(up))))

horizon_quadrant(round, x) ==
    IF IsNaN(round) THEN NaN
    ELSE IF FLt(sin(x), Zero) THEN round
    ELSE from_degrees(FSub(FInt(360), degrees(round)))

horizon_pair(y, lati, x, up) ==
    IF IsNaN(up) THEN <<NaN, NaN>>
    ELSE <<horizon_quadrant(horizon_round(y, lati, up), x), up>>

horizon_of(y, lati, x) ==
    IF IsNaN(x) \/ IsNaN(y) THEN <<NaN, NaN>>
    ELSE horizon_pair(y, lati, x, horizon_up(y, lati, x))

(* Coord::horizon: (azimuth, altitude) *)
horizon(c, date, t, lati, longi) ==
    horizon_of(c[2], lati, hourangle_rightas(c[1], date, t, longi))

from_horizon_ha(p, date, t, longi) ==
    from_equatorial(hourangle_rightas(p[1], date, t, longi), p[2])

(* Coord::from_horizon *)
from_horizon(azi, alt, date, t, lati, longi) ==
    from_horizon_ha(horizon_of(alt, lati, azi), date, t, longi)

----------------------------------------------------------------------------
(* The state: two Angle registers, two Date registers, how each first      *)
(* register's value was made (arg, and arg2 for the value before it), the  *)
(* last operation, what the last reading returned, and the number of       *)
(* values constructed so far.                                              *)

(* the number of values a run constructs *)
MaxOps == 2

VARIABLES a, b, dt, dt2, op, arg, arg2, out, n

vars == <<a, b, dt, dt2, op, arg, arg2, out, n>>

NoOut == <<>>

(* Angle::default() is Angle(0.0) *)
Init ==
    /\ a = Zero /\ b = Zero
    /\ dt = Zero /\ dt2 = Zero
    /\ op = "default"
    /\ arg = [f |-> "default"] /\ arg2 = [f |-> "default"]
    /\ out = NoOut
    /\ n = 0

(* an associated function returning an Angle: the new value enters a, the old one moves to b *)
NewAngle(name, value, args) ==
    /\ a' = value /\ b' = a
    /\ arg' = args /\ arg2' = arg
    /\ op' = name /\ out' = NoOut /\ n' = n + 1
    /\ UNCHANGED <<dt, dt2>>

(* a method of a returning an Angle *)
SetAngle(name, value, args) ==
    /\ a' = value
    /\ arg' = args
    /\ op' = name /\ out' = NoOut /\ n' = n + 1
    /\ UNCHANGED <<b, arg2, dt, dt2>>

(* an associated function returning a Date: the new value enters dt, the old one moves to dt2 *)
NewDate(name, value, args) ==
    /\ dt' = value /\ dt2' = dt
    /\ arg' = args /\ arg2' = arg
    /\ op' = name /\ out' = NoOut /\ n' = n + 1
    /\ UNCHANGED <<a, b>>

(* mean_obliquity_ecl: 23.439_292 - ((46.815 * t + 0.0006 * (t * t) - 0.00181 * (t * t * t)) / 3600.0) *)
OBL0 == [s |-> 0, m |-> <<25849, 24970, 16853, 187>>, e |-> -48]
OBL1 == [s |-> 0, m |-> <<7864, 22282, 8519, 187>>, e |-> -47]
OBL2 == [s |-> 0, m |-> <<12897, 24746, 9384, 157>>, e |-> -63]
OBL3 == [s |-> 0, m |-> <<4708, 26403, 7874, 237>>, e |-> -62]

mean_obliquity_at(t) ==
    CASE IsF64(t) ->
    from_degrees(FSub(OBL0,
        FDiv(FSub(FAdd(FMul(OBL1, t), FMul(OBL2, FMul(t, t))),
                  FMul(OBL3, FMul(FMul(t, t), t))),
             FInt(3600))))

mean_obliquity_ecl(d) == mean_obliquity_at(centuries(d))

(* Angle::atan2(y, x) for two f64: from_radians(y.atan2(x)) *)
atan2_of(y, x) == atan2(f64_atan2(y, x))

ecliptic_with(ra, de, e) ==
    CASE IsF64(e) ->
    <<atan2_of(FAdd(FMul(sin(ra), cos(e)), FMul(tan(de), sin(e))), cos(ra)),
      asin_of(FSub(FMul(sin(de), cos(e)), FMul(FMul(cos(de), sin(e)), sin(ra))))>>

(* Coord::ecliptic: (lambda, beta) *)
ecliptic(c, d) == ecliptic_with(c[1], c[2], mean_obliquity_ecl(d))

from_ecliptic_with(lambda, beta, e) ==
    CASE IsF64(e) ->
    from_equatorial(
        atan2_of(FSub(FMul(sin(lambda), cos(e)), FMul(tan(beta), sin(e))), cos(lambda)),
        asin_of(FAdd(FMul(sin(beta), cos(e)), FMul(FMul(cos(beta), sin(e)), sin(lambda)))))

(* Coord::from_ecliptic *)
from_ecliptic(lambda, beta, d) == from_ecliptic_with(lambda, beta, mean_obliquity_ecl(d))

(* Option<(Angle, Angle)>: None, or Some of a pair *)
None == <<>>

Some(x, y) == <<x, y>>

(* Coord::riseset without its is_nan test *)
riseset_unchecked(ra, longi, date, ar, h) ==
    Some(ungst(sub(sub(ra, h), longi), date), ungst(sub(add(ra, h), longi), date))

(* Coord::riseset after ar and h: None when either is NaN, lsts and lstr otherwise *)
riseset_with(ra, longi, date, ar, h) ==
    IF IsNaN(h) \/ IsNaN(ar) THEN None
    ELSE Some(ungst(sub(sub(ra, h), longi), date), ungst(sub(add(ra, h), longi), date))

(* Coord::riseset *)
riseset(c, date, lati, longi) ==
    riseset_with(c[1], longi, date,
                 acos_of(FDiv(sin(c[2]), cos(lati))),
                 acos_of(FMul(FNeg(tan(lati)), tan(c[2]))))

(* ---- sol.rs: the planets ---- *)

(* the Planet constants: number, the six orbital elements, their rates per *)
(* century and the extra terms of the mean anomaly; the physical           *)
(* properties theta0 and v0 play no part in a position                     *)
MERCURY ==
    [number |-> 0,
     a |-> [s |-> 0, m |-> <<9852, 2170, 6384, 198>>, e |-> -54],
     e |-> [s |-> 0, m |-> <<17419, 27195, 18716, 210>>, e |-> -55],
     i |-> [s |-> 0, m |-> <<17336, 28864, 5220, 224>>, e |-> -50],
     l |-> [s |-> 0, m |-> <<15731, 19675, 8202, 252>>, e |-> -45],
     w |-> [s |-> 0, m |-> <<13606, 4489, 30002, 154>>, e |-> -46],
     o |-> [s |-> 0, m |-> <<32146, 4979, 10586, 193>>, e |-> -47],
     rates |-> <<[s |-> 0, m |-> <<8739, 27408, 21044, 198>>, e |-> -74],
               [s |-> 0, m |-> <<11905, 29699, 29060, 159>>, e |-> -68],
               [s |-> 1, m |-> <<19904, 24930, 29076, 194>>, e |-> -60],
               [s |-> 0, m |-> <<13185, 18729, 31765, 145>>, e |-> -35],
               [s |-> 0, m |-> <<10817, 29264, 10758, 164>>, e |-> -55],
               [s |-> 1, m |-> <<28257, 22477, 11435, 128>>, e |-> -55]>>,
     extra |-> None,
     theta0 |-> [s |-> 0, m |-> <<14319, 18764, 18530, 235>>, e |-> -62],
     v0 |-> [s |-> 1, m |-> <<31457, 23592, 1310, 215>>, e |-> -54]]

VENUS ==
    [number |-> 1,
     a |-> [s |-> 0, m |-> <<24800, 9966, 5699, 185>>, e |-> -53],
     e |-> [s |-> 0, m |-> <<27184, 22725, 1951, 222>>, e |-> -60],
     i |-> [s |-> 0, m |-> <<7582, 21876, 8495, 217>>, e |-> -51],
     l |-> [s |-> 0, m |-> <<245, 4339, 32083, 181>>, e |-> -45],
     w |-> [s |-> 0, m |-> <<24685, 21120, 19741, 131>>, e |-> -45],
     o |-> [s |-> 0, m |-> <<11129, 5287, 11786, 153>>, e |-> -46],
     rates |-> <<[s |-> 0, m |-> <<31440, 11413, 28255, 130>>, e |-> -70],
               [s |-> 1, m |-> <<3482, 26840, 8521, 172>>, e |-> -67],
               [s |-> 1, m |-> <<1197, 13095, 26391, 206>>, e |-> -63],
               [s |-> 0, m |-> <<5636, 12110, 19176, 228>>, e |-> -37],
               [s |-> 0, m |-> <<15861, 13036, 27921, 175>>, e |-> -61],
               [s |-> 1, m |-> <<28206, 7857, 5879, 142>>, e |-> -54]>>,
     extra |-> None,
     theta0 |-> [s |-> 0, m |-> <<16725, 18769, 314, 154>>, e |-> -60],
     v0 |-> [s |-> 1, m |-> <<6554, 13107, 26214, 140>>, e |-> -50]]

EARTH ==
    [number |-> 2,
     a |-> [s |-> 0, m |-> <<21907, 31035, 10, 128>>, e |-> -52],
     e |-> [s |-> 0, m |-> <<16810, 21147, 29438, 136>>, e |-> -58],
     i |-> [s |-> 1, m |-> <<2772, 24750, 14076, 128>>, e |-> -68],
     l |-> [s |-> 0, m |-> <<5709, 5515, 30446, 200>>, e |-> -46],
     w |-> [s |-> 0, m |-> <<22940, 30243, 28683, 205>>, e |-> -46],
     o |-> Zero,
     rates |-> <<[s |-> 0, m |-> <<18924, 11406, 18871, 188>>, e |-> -70],
               [s |-> 1, m |-> <<3676, 27410, 7006, 184>>, e |-> -67],
               [s |-> 1, m |-> <<17031, 29457, 3879, 212>>, e |-> -59],
               [s |-> 0, m |-> <<23851, 22071, 20399, 140>>, e |-> -37],
               [s |-> 0, m |-> <<24127, 22458, 16911, 165>>, e |-> -54],
               Zero>>,
     extra |-> None,
     theta0 |-> [s |-> 0, m |-> <<0, 0, 0, 180>>, e |-> -45],
     v0 |-> [s |-> 1, m |-> <<0, 0, 0, 192>>, e |-> -49]]

MARS ==
    [number |-> 3,
     a |-> [s |-> 0, m |-> <<2140, 12252, 1144, 195>>, e |-> -52],
     e |-> [s |-> 0, m |-> <<11437, 31303, 8883, 191>>, e |-> -56],
     i |-> [s |-> 0, m |-> <<30724, 3986, 24920, 236>>, e |-> -52],
     l |-> [s |-> 1, m |-> <<15266, 18522, 23259, 145>>, e |-> -50],
     w |-> [s |-> 1, m |-> <<5760, 27369, 17990, 191>>, e |-> -48],
     o |-> [s |-> 0, m |-> <<9486, 28967, 7803, 198>>, e |-> -47],
     rates |-> <<[s |-> 0, m |-> <<2167, 30843, 30722, 154>>, e |-> -68],
               [s |-> 0, m |-> <<21995, 5122, 9749, 165>>, e |-> -66],
               [s |-> 1, m |-> <<26878, 26720, 7319, 133>>, e |-> -59],
               [s |-> 0, m |-> <<23875, 15969, 17485, 149>>, e |-> -38],
               [s |-> 0, m |-> <<2697, 10699, 17641, 227>>, e |-> -54],
               [s |-> 1, m |-> <<21424, 20675, 26135, 149>>, e |-> -54]>>,
     extra |-> None,
     theta0 |-> [s |-> 0, m |-> <<30356, 15885, 12897, 170>>, e |-> -61],
     v0 |-> [s |-> 1, m |-> <<14418, 2621, 18350, 194>>, e |-> -52]]

JUPITER ==
    [number |-> 4,
     a |-> [s |-> 0, m |-> <<3373, 28433, 15707, 166>>, e |-> -50],
     e |-> [s |-> 0, m |-> <<9589, 7354, 26314, 198>>, e |-> -57],
     i |-> [s |-> 0, m |-> <<10498, 18538, 7294, 166>>, e |-> -52],
     l |-> [s |-> 0, m |-> <<12391, 26021, 11113, 137>>, e |-> -47],
     w |-> [s |-> 0, m |-> <<708, 8679, 13082, 228>>, e |-> -49],
     o |-> [s |-> 0, m |-> <<11482, 22286, 19190, 200>>, e |-> -46],
     rates |-> <<[s |-> 1, m |-> <<25625, 8351, 8183, 240>>, e |-> -68],
               [s |-> 0, m |-> <<14792, 14359, 534, 189>>, e |-> -65],
               [s |-> 1, m |-> <<28834, 8429, 15860, 211>>, e |-> -61],
               [s |-> 0, m |-> <<16369, 26659, 22330, 189>>, e |-> -41],
               [s |-> 0, m |-> <<24402, 27733, 11788, 186>>, e |-> -55],
               [s |-> 0, m |-> <<17111, 30330, 12192, 133>>, e |-> -55]>>,
     extra |-> <<[s |-> 1, m |-> <<1427, 20368, 18634, 130>>, e |-> -65],
               [s |-> 0, m |-> <<8298, 18237, 12579, 248>>, e |-> -57],
               [s |-> 1, m |-> <<14865, 13297, 14858, 182>>, e |-> -54],
               [s |-> 0, m |-> <<23593, 1310, 13271, 153>>, e |-> -47]>>,
     theta0 |-> [s |-> 0, m |-> <<27315, 27367, 27734, 223>>, e |-> -57],
     v0 |-> [s |-> 1, m |-> <<19661, 6553, 13107, 150>>, e |-> -49]]

SATURN ==
    [number |-> 5,
     a |-> [s |-> 0, m |-> <<22579, 11094, 21757, 152>>, e |-> -49],
     e |-> [s |-> 0, m |-> <<32395, 6561, 11855, 227>>, e |-> -57],
     i |-> [s |-> 0, m |-> <<28407, 17811, 20690, 159>>, e |-> -51],
     l |-> [s |-> 0, m |-> <<13847, 29240, 9923, 200>>, e |-> -47],
     w |-> [s |-> 0, m |-> <<31325, 4267, 23682, 185>>, e |-> -46],
     o |-> [s |-> 0, m |-> <<12526, 6204, 9174, 227>>, e |-> -46],
     rates |-> <<[s |-> 1, m |-> <<29678, 30274, 18199, 128>>, e |-> -67],
               [s |-> 1, m |-> <<10657, 9218, 93, 168>>, e |-> -64],
               [s |-> 0, m |-> <<5672, 6046, 3316, 148>>, e |-> -60],
               [s |-> 0, m |-> <<12867, 26997, 25046, 152>>, e |-> -42],
               [s |-> 0, m |-> <<19168, 847, 22920, 138>>, e |-> -53],
               [s |-> 1, m |-> <<6536, 30079, 2516, 128>>, e |-> -54]>>,
     extra |-> <<[s |-> 0, m |-> <<19189, 10484, 25734, 135>>, e |-> -64],
               [s |-> 1, m |-> <<31526, 25072, 18643, 137>>, e |-> -55],
               [s |-> 0, m |-> <<787, 27422, 17680, 223>>, e |-> -53],
               [s |-> 0, m |-> <<23593, 1310, 13271, 153>>, e |-> -47]>>,
     theta0 |-> [s |-> 0, m |-> <<25690, 15990, 13631, 188>>, e |-> -57],
     v0 |-> [s |-> 1, m |-> <<19661, 6553, 13107, 142>>, e |-> -49]]

URANUS ==
    [number |-> 6,
     a |-> [s |-> 0, m |-> <<27465, 22701, 16509, 153>>, e |-> -48],
     e |-> [s |-> 0, m |-> <<13257, 25165, 30405, 191>>, e |-> -57],
     i |-> [s |-> 0, m |-> <<16874, 28356, 28940, 197>>, e |-> -53],
     l |-> [s |-> 0, m |-> <<18361, 4005, 3322, 157>>, e |-> -44],
     w |-> [s |-> 0, m |-> <<16070, 25140, 14222, 172>>, e |-> -45],
     o |-> [s |-> 0, m |-> <<9498, 17724, 30310, 147>>, e |-> -46],
     rates |-> <<[s |-> 1, m |-> <<21586, 15832, 15932, 214>>, e |-> -65],
               [s |-> 1, m |-> <<15905, 18272, 767, 130>>, e |-> -68],
               [s |-> 1, m |-> <<17733, 10882, 4350, 236>>, e |-> -62],
               [s |-> 0, m |-> <<10858, 4704, 8112, 214>>, e |-> -44],
               [s |-> 0, m |-> <<16892, 11814, 25816, 189>>, e |-> -56],
               [s |-> 0, m |-> <<12163, 19393, 3213, 235>>, e |-> -57]>>,
     extra |-> <<[s |-> 0, m |-> <<3039, 24473, 29858, 152>>, e |-> -63],
               [s |-> 1, m |-> <<2999, 20312, 6341, 250>>, e |-> -53],
               [s |-> 0, m |-> <<25713, 22440, 4517, 181>>, e |-> -55],
               [s |-> 0, m |-> <<4981, 2097, 14680, 245>>, e |-> -50]>>,
     theta0 |-> [s |-> 0, m |-> <<14385, 19384, 23971, 149>>, e |-> -58],
     v0 |-> [s |-> 1, m |-> <<30147, 14417, 2621, 230>>, e |-> -50]]

NEPTUNE ==
    [number |-> 7,
     a |-> [s |-> 0, m |-> <<4718, 7281, 18226, 240>>, e |-> -48],
     e |-> [s |-> 0, m |-> <<8460, 17226, 23223, 146>>, e |-> -59],
     i |-> [s |-> 0, m |-> <<22009, 19843, 18581, 226>>, e |-> -52],
     l |-> [s |-> 0, m |-> <<12950, 28730, 3651, 152>>, e |-> -44],
     w |-> [s |-> 0, m |-> <<5600, 89, 23801, 186>>, e |-> -47],
     o |-> [s |-> 0, m |-> <<10491, 12986, 25767, 131>>, e |-> -45],
     rates |-> <<[s |-> 0, m |-> <<9435, 21796, 6664, 135>>, e |-> -66],
               [s |-> 0, m |-> <<18436, 18271, 7786, 137>>, e |-> -69],
               [s |-> 0, m |-> <<24503, 12924, 28869, 234>>, e |-> -65],
               [s |-> 0, m |-> <<32209, 4524, 15242, 218>>, e |-> -45],
               [s |-> 0, m |-> <<8325, 11509, 15343, 165>>, e |-> -59],
               [s |-> 1, m |-> <<989, 5038, 22054, 198>>, e |-> -60]>>,
     extra |-> <<[s |-> 1, m |-> <<21105, 10164, 25644, 216>>, e |-> -64],
               [s |-> 0, m |-> <<22620, 22919, 31672, 174>>, e |-> -53],
               [s |-> 1, m |-> <<13176, 27694, 4225, 208>>, e |-> -56],
               [s |-> 0, m |-> <<4981, 2097, 14680, 245>>, e |-> -50]>>,
     theta0 |-> [s |-> 0, m |-> <<7569, 4442, 17680, 141>>, e |-> -58],
     v0 |-> [s |-> 1, m |-> <<5243, 3932, 27525, 219>>, e |-> -50]]

PLUTO ==
    [number |-> 8,
     a |-> [s |-> 0, m |-> <<31756, 24896, 31045, 157>>, e |-> -47],
     e |-> [s |-> 0, m |-> <<23977, 8609, 27028, 254>>, e |-> -55],
     i |-> [s |-> 0, m |-> <<22466, 15444, 4205, 137>>, e |-> -48],
     l |-> [s |-> 0, m |-> <<29819, 19411, 31632, 238>>, e |-> -45],
     w |-> [s |-> 0, m |-> <<24268, 11380, 3179, 224>>, e |-> -45],
     o |-> [s |-> 0, m |-> <<9205, 29206, 19770, 220>>, e |-> -46],
     rates |-> <<[s |-> 0, m |-> <<7956, 19361, 12268, 147>>, e |-> -60],
               [s |-> 0, m |-> <<19957, 14446, 10791, 252>>, e |-> -67],
               [s |-> 0, m |-> <<311, 8361, 3529, 168>>, e |-> -70],
               [s |-> 0, m |-> <<25387, 9779, 5912, 145>>, e |-> -45],
               [s |-> 1, m |-> <<17505, 11488, 24006, 158>>, e |-> -59],
               [s |-> 1, m |-> <<13801, 12508, 23176, 132>>, e |-> -59]>>,
     extra |-> None,
     theta0 |-> [s |-> 0, m |-> <<29095, 11944, 9058, 149>>, e |-> -61],
     v0 |-> [s |-> 1, m |-> <<0, 0, 0, 128>>, e |-> -52]]

PLANETS == <<MERCURY, VENUS, EARTH, MARS, JUPITER, SATURN, URANUS, NEPTUNE, PLUTO>>

(* fn kepler(m, e, ee) inside locationcart: one Newton step for E - e sin E = M, in degrees *)
locationcart_dm(m, e, ee, s) ==
    CASE IsF64(s) -> FSub(m, FSub(ee, FMul(to_degrees(e), s)))

locationcart_quotient(dm, den) ==
    CASE IsF64(dm) /\ IsF64(den) -> FDiv(dm, den)

locationcart_kepler(m, e, ee) ==
    locationcart_quotient(locationcart_dm(m, e, ee, f64_sin(to_radians(ee))),
                          FSub([s |-> 0, m |-> <<0, 0, 0, 128>>, e |-> -52], FMul(e, f64_cos(to_radians(ee)))))

(* a, e, l, w, o in the units of the constants and i in radians, t centuries after J2000 *)
elements(p, t) ==
    CASE IsF64(t) ->
        [a |-> FAdd(p.a, FMul(p.rates[1], t)),
         e |-> FAdd(p.e, FMul(p.rates[2], t)),
         l |-> FAdd(p.l, FMul(p.rates[4], t)),
         w |-> FAdd(p.w, FMul(p.rates[5], t)),
         o |-> FAdd(p.o, FMul(p.rates[6], t)),
         i |-> to_radians(FAdd(p.i, FMul(p.rates[3], t)))]

(* m + b * t * t + c * (f * t).to_radians().cos() + s * (f * t).to_radians().sin() *)
extra_terms(m, x, t) ==
    FAdd(FAdd(FAdd(m, FMul(FMul(x[1], t), t)),
              FMul(x[2], f64_cos(to_radians(FMul(x[4], t))))),
         FMul(x[3], f64_sin(to_radians(FMul(x[4], t)))))

(* let mut m = l - w, with the extra terms of a planet that has them *)
mean_anomaly(p, el, t) ==
    IF p.extra = None THEN FSub(el.l, el.w) ELSE extra_terms(FSub(el.l, el.w), p.extra, t)

(* while m > 180.0 { m -= 360.0; }: while_passes(m, k) is m after the passes the loop *)
(* makes of its next 2^k, and the loop goes on from there while m > 180.0 still holds  *)
RECURSIVE while_above_180(_)
RECURSIVE while_passes(_, _)
while_passes(m, k) ==
    CASE IsF64(m) ->
        IF ~FGt(m, [s |-> 0, m |-> <<0, 0, 0, 180>>, e |-> -45]) THEN m
        ELSE IF k = 0 THEN FSub(m, [s |-> 0, m |-> <<0, 0, 0, 180>>, e |-> -44])
        ELSE while_passes(while_passes(m, k - 1), k - 1)

while_above_180(m) ==
    CASE IsF64(m) ->
        IF FGt(m, [s |-> 0, m |-> <<0, 0, 0, 180>>, e |-> -45]) THEN while_above_180(while_passes(m, 5)) ELSE m

(* let mut ee = m + 57.29578 * e * (m.to_radians().sin()) *)
first_guess(m, e) ==
    CASE IsF64(m) -> FAdd(m, FMul(FMul([s |-> 0, m |-> <<26571, 15602, 6000, 229>>, e |-> -47], e), f64_sin(to_radians(m))))

(* de.abs() > 1e-7 *)
newton_running(de) == FGt(FAbs(de), [s |-> 0, m |-> <<12104, 13689, 24522, 214>>, e |-> -76])

(* while de.abs() > 1e-7 { de = kepler(m, e, ee); ee += de; }, for a call that returns *)
RECURSIVE newton(_, _, _, _)
newton_step(m, e, ee, d) ==
    CASE IsF64(d) -> newton(m, e, FAdd(ee, d), d)

newton(m, e, ee, de) ==
    CASE IsF64(ee) /\ IsF64(de) ->
        IF newton_running(de) THEN newton_step(m, e, ee, locationcart_kepler(m, e, ee)) ELSE ee

(* xp and yp, the position in the plane of the orbit *)
orbit_plane(sma, e, root, c, s) ==
    CASE IsF64(c) /\ IsF64(s) ->
        IF IsNaN(root) THEN <<NaN, NaN>>
        ELSE <<FMul(sma, FSub(c, e)), FMul(FMul(sma, root), s)>>

(* xecl, yecl, zecl from xp, yp and the cosines and sines of ww, o and i *)
ecliptic_xyz(q, cw, sw, co, so, ci, si) ==
    CASE IsF64(cw) /\ IsF64(sw) /\ IsF64(co) /\ IsF64(so) /\ IsF64(ci) /\ IsF64(si) ->
        IF IsNaN(q[1]) \/ IsNaN(q[2]) THEN <<NaN, NaN, NaN>>
        ELSE <<FAdd(FMul(FSub(FMul(cw, co), FMul(FMul(sw, so), ci)), q[1]),
                    FMul(FSub(FMul(FNeg(sw), co), FMul(FMul(cw, so), ci)), q[2])),
               FAdd(FMul(FAdd(FMul(cw, so), FMul(FMul(sw, co), ci)), q[1]),
                    FMul(FAdd(FMul(FNeg(sw), so), FMul(FMul(cw, co), ci)), q[2])),
               FAdd(FMul(FMul(sw, si), q[1]), FMul(FMul(cw, si), q[2]))>>

(* tx, ty, tz: the rotation by eps = 23.43928 degrees *)
equatorial_xyz(v, ce, se) ==
    CASE IsF64(v[1]) ->
        IF IsNaN(v[1]) THEN v
        ELSE <<v[1],
               FSub(FMul(ce, v[2]), FMul(se, v[3])),
               FAdd(FMul(se, v[2]), FMul(ce, v[3]))>>

(* locationcart after its Newton loop: ww, o and i in radians *)
cartesian(sma, e, ee, ww, o, i) ==
    equatorial_xyz(
        ecliptic_xyz(orbit_plane(sma, e, f64_sqrt(FSub([s |-> 0, m |-> <<0, 0, 0, 128>>, e |-> -52], FMul(e, e))),
                                 f64_cos(to_radians(ee)), f64_sin(to_radians(ee))),
                     f64_cos(ww), f64_sin(ww), f64_cos(o), f64_sin(o), f64_cos(i), f64_sin(i)),
        f64_cos(to_radians([s |-> 0, m |-> <<18801, 20195, 16850, 187>>, e |-> -48])), f64_sin(to_radians([s |-> 0, m |-> <<18801, 20195, 16850, 187>>, e |-> -48])))

locationcart_after(el, ee) ==
    CASE IsF64(ee) ->
        cartesian(el.a, el.e, ee, to_radians(FSub(el.w, el.o)), to_radians(el.o), el.i)

locationcart_solve(el, m) ==
    CASE IsF64(m) -> locationcart_after(el, newton(m, el.e, first_guess(m, el.e), [s |-> 0, m |-> <<0, 0, 0, 128>>, e |-> -52]))

locationcart_of(p, el, t) ==
    CASE IsF64(el.a) -> locationcart_solve(el, while_above_180(mean_anomaly(p, el, t)))

(* Planet::locationcart *)
locationcart(p, d) == locationcart_of(p, elements(p, centuries(d)), centuries(d))

(* (tx * tx + ty * ty + tz * tz).sqrt() *)
norm(v) ==
    CASE IsF64(v[1]) ->
        f64_sqrt(FAdd(FAdd(FMul(v[1], v[1]), FMul(v[2], v[2])), FMul(v[3], v[3])))

(* Angle::from_radians(0.5 * PI - (tz / r).acos()); 0.0 / 0.0 is NaN *)
from_cartesian_t2(z, r) ==
    CASE IsF64(r) ->
        IF IsZero(r) THEN NaN
        ELSE from_radians(FSub(FMul([s |-> 0, m |-> <<0, 0, 0, 128>>, e |-> -53], PI), f64_acos(FDiv(z, r))))

(* Coord::from_cartesian *)
from_cartesian(x, y, z) ==
    from_equatorial(atan2_of(y, x), from_cartesian_t2(z, norm(<<x, y, z>>)))

(* Coord::dist *)
dist(c, f) ==
    CASE IsF64(c[2]) /\ IsF64(f[2]) ->
    acos_of(FAdd(FMul(sin(c[2]), sin(f[2])),
                 FMul(FMul(cos(c[2]), cos(f[2])), cos(sub(c[1], f[1])))))

(* (c.0 - e.0, c.1 - e.1, c.2 - e.2) *)
minus(c, e) ==
    CASE IsF64(c[1]) /\ IsF64(e[1]) -> <<FSub(c[1], e[1]), FSub(c[2], e[2]), FSub(c[3], e[3])>>

(* the vector from the Earth to the planet, which location hands to from_cartesian *)
(* and of which distance takes the norm: there is none for the Earth              *)
location_vector(p, d) ==
    IF p.number = 2 THEN None ELSE minus(locationcart(p, d), locationcart(EARTH, d))

(* Planet::location without the test of self.number *)
location_unguarded(v) ==
    CASE v = None -> from_cartesian(Zero, Zero, Zero)
      [] OTHER -> from_cartesian(v[1], v[2], v[3])

(* Planet::location after c: Coord::default() for the Earth *)
location_of(v) ==
    CASE v = None -> from_equatorial(Zero, Zero)
      [] OTHER -> from_cartesian(v[1], v[2], v[3])

(* Planet::location *)
location(p, d) == location_of(location_vector(p, d))

(* Planet::distance after its test of self.number: 0.0 for the Earth *)
distance_of(v) ==
    CASE v = None -> Zero
      [] OTHER -> norm(v)

(* Planet::distance *)
distance(p, d) == distance_of(location_vector(p, d))

(* sol::sun::locationcart *)
sun_term(c, p, f, t) == FMul(c, f64_cos(FAdd(p, FMul(f, t))))

sun_y(t) ==
    CASE IsF64(t) ->
        FAdd(FAdd(FAdd(sun_term([s |-> 0, m |-> <<16388, 18944, 16651, 219>>, e |-> -66], [s |-> 0, m |-> <<25605, 126, 15133, 197>>, e |-> -56], [s |-> 0, m |-> <<17497, 8283, 8506, 147>>, e |-> -38], t),
                       FSub(sun_term([s |-> 0, m |-> <<19250, 15205, 27993, 136>>, e |-> -59], [s |-> 0, m |-> <<18338, 9603, 28753, 142>>, e |-> -55], [s |-> 0, m |-> <<12407, 21967, 11341, 196>>, e |-> -39], t),
                            [s |-> 0, m |-> <<4525, 9699, 3470, 200>>, e |-> -58])),
                  sun_term([s |-> 0, m |-> <<2726, 31313, 31862, 255>>, e |-> -53], [s |-> 0, m |-> <<17912, 25960, 1399, 187>>, e |-> -55], [s |-> 0, m |-> <<12407, 21967, 11341, 196>>, e |-> -40], t)),
             FMul(FAdd([s |-> 0, m |-> <<3982, 12185, 29994, 243>>, e |-> -63],
                       sun_term([s |-> 0, m |-> <<6509, 775, 704, 135>>, e |-> -63], [s |-> 0, m |-> <<21814, 11540, 26796, 141>>, e |-> -50], [s |-> 0, m |-> <<12407, 21967, 11341, 196>>, e |-> -39], t)), t))

sun_x(t) ==
    CASE IsF64(t) ->
        FAdd(FAdd(FAdd(FAdd([s |-> 0, m |-> <<31521, 1073, 28696, 183>>, e |-> -60],
                            sun_term([s |-> 0, m |-> <<4194, 32555, 16419, 219>>, e |-> -66], [s |-> 0, m |-> <<10702, 18923, 13270, 213>>, e |-> -52], [s |-> 0, m |-> <<17497, 8283, 8506, 147>>, e |-> -38], t)),
                       sun_term([s |-> 0, m |-> <<18543, 15861, 27805, 136>>, e |-> -59], [s |-> 0, m |-> <<24084, 17351, 30284, 218>>, e |-> -52], [s |-> 0, m |-> <<12407, 21967, 11341, 196>>, e |-> -39], t)),
                  sun_term([s |-> 0, m |-> <<22808, 31707, 31335, 255>>, e |-> -53], [s |-> 0, m |-> <<5679, 704, 14620, 224>>, e |-> -52], [s |-> 0, m |-> <<12407, 21967, 11341, 196>>, e |-> -40], t)),
             FMul(FAdd([s |-> 0, m |-> <<3896, 29408, 24472, 161>>, e |-> -62],
                       sun_term([s |-> 0, m |-> <<31179, 23434, 149, 135>>, e |-> -63], [s |-> 0, m |-> <<21436, 458, 2792, 192>>, e |-> -50], [s |-> 0, m |-> <<12407, 21967, 11341, 196>>, e |-> -39], t)), t))

sun_z(t) ==
    CASE IsF64(t) -> FMul(sun_term([s |-> 0, m |-> <<9403, 22558, 10017, 149>>, e |-> -61], [s |-> 0, m |-> <<13789, 9860, 15676, 218>>, e |-> -51], [s |-> 0, m |-> <<12407, 21967, 11341, 196>>, e |-> -40], t), t)

(* tx, ty, tz from x, y, z *)
sun_rotate(x, y, z) ==
    CASE IsF64(x) /\ IsF64(y) /\ IsF64(z) ->
        <<FNeg(FAdd(FAdd(x, FMul(y, [s |-> 0, m |-> <<10996, 1524, 13647, 236>>, e |-> -74])), FMul(z, [s |-> 1, m |-> <<1134, 4418, 32693, 204>>, e |-> -75]))),
          FNeg(FAdd(FAdd(FMul(x, [s |-> 1, m |-> <<1064, 19120, 27521, 128>>, e |-> -73]), FMul(y, [s |-> 0, m |-> <<32199, 32604, 28685, 234>>, e |-> -53])),
                    FMul(z, [s |-> 1, m |-> <<6621, 11861, 21686, 203>>, e |-> -54]))),
          FNeg(FAdd(FMul(y, [s |-> 0, m |-> <<6621, 11861, 21686, 203>>, e |-> -54]), FMul(z, [s |-> 0, m |-> <<32199, 32604, 28685, 234>>, e |-> -53])))>>

sun_at(t) == CASE IsF64(t) -> sun_rotate(sun_x(t), sun_y(t), sun_z(t))

sun_locationcart(d) == sun_at(FDiv(centuries(d), [s |-> 0, m |-> <<0, 0, 0, 160>>, e |-> -49]))

sun_location_of(v) == CASE IsF64(v[1]) -> from_cartesian(v[1], v[2], v[3])

(* sol::sun::location *)
sun_location(d) == sun_location_of(sun_locationcart(d))

(* Planet::phaseangle: Angle::asin(1.0 * (sep.sin() / sp)) *)
phaseangle_of(sep, sp) ==
    CASE IsF64(sep) /\ IsF64(sp) -> asin_of(FMul([s |-> 0, m |-> <<0, 0, 0, 128>>, e |-> -52], FDiv(sin(sep), sp)))

phaseangle(p, d) ==
    phaseangle_of(dist(sun_location(d), location(p, d)), norm(locationcart(p, d)))

(* Planet::illumfrac *)
illumfrac_of(number, c) ==
    CASE IsF64(c) ->
        IF number > 2 THEN FMul([s |-> 0, m |-> <<0, 0, 0, 128>>, e |-> -53], FAdd([s |-> 0, m |-> <<0, 0, 0, 128>>, e |-> -52], c))
        ELSE FMul([s |-> 0, m |-> <<0, 0, 0, 128>>, e |-> -53], FSub([s |-> 0, m |-> <<0, 0, 0, 128>>, e |-> -52], c))

illumfrac_angle(number, pa) ==
    IF IsNaN(pa) THEN NaN ELSE illumfrac_of(number, cos(pa))

illumfrac(p, d) == illumfrac_angle(p.number, phaseangle(p, d))

(* an associated function returning a Coord: its two Angles enter a and b *)
NewCoord(name, c, args) ==
    /\ a' = c[1] /\ b' = c[2]
    /\ arg' = args /\ arg2' = arg
    /\ op' = name /\ out' = NoOut /\ n' = n + 1
    /\ UNCHANGED <<dt, dt2>>

(* what a method that returns something else than an Angle or a Date leaves alone *)
held == <<a, b, dt, dt2, arg, arg2, n>>

FromRadians(x) ==
    /\ n < MaxOps
    /\ NewAngle("from_radians", from_radians(x), [f |-> "from_radians", x |-> x])
FromDegrees(x) ==
    /\ n < MaxOps
    /\ NewAngle("from_degrees", from_degrees(x), [f |-> "from_degrees", x |-> x])
FromTurns(x) ==
    /\ n < MaxOps
    /\ NewAngle("from_turns", from_turns(x), [f |-> "from_turns", x |-> x])
FromDecimal(x) ==
    /\ n < MaxOps
    /\ NewAngle("from_decimal", from_decimal(x), [f |-> "from_decimal", x |-> x])
FromClock(h, m, s) ==
    /\ n < MaxOps
    /\ NewAngle("from_clock", from_clock(h, m, s),
                [f |-> "from_clock", h |-> h, m |-> m, s |-> s, reading |-> FALSE])
FromDegminsec(d, m, s) ==
    /\ n < MaxOps
    /\ NewAngle("from_degminsec", from_degminsec(d, m, s),
                [f |-> "from_degminsec", d |-> d, m |-> m, s |-> s, reading |-> FALSE])

(* from_clock and from_degminsec of what clock() and degminsec() have just returned *)
FromClockReading ==
    /\ n < MaxOps
    /\ op = "clock"
    /\ NewAngle("from_clock", from_clock(out[1], out[2], out[3]),
                [f |-> "from_clock", h |-> out[1], m |-> out[2], s |-> out[3], reading |-> TRUE])
FromDegminsecReading ==
    /\ n < MaxOps
    /\ op = "degminsec"
    /\ NewAngle("from_degminsec", from_degminsec(out[1], out[2], out[3]),
                [f |-> "from_degminsec", d |-> out[1], m |-> out[2], s |-> out[3], reading |-> TRUE])
Asin(r) ==
    /\ n < MaxOps
    /\ NewAngle("asin", asin(r), [f |-> "asin", x |-> r])
Acos(r) ==
    /\ n < MaxOps
    /\ NewAngle("acos", acos(r), [f |-> "acos", x |-> r])
Atan2(r) ==
    /\ n < MaxOps
    /\ NewAngle("atan2", atan2(r), [f |-> "atan2", x |-> r])

Add ==
    /\ n < MaxOps
    /\ SetAngle("add", add(a, b), [f |-> "add"])
Sub ==
    /\ n < MaxOps
    /\ SetAngle("sub", sub(a, b), [f |-> "sub"])
Mul(x) ==
    /\ n < MaxOps
    /\ SetAngle("mul", mul(a, x), [f |-> "mul"])
Div(x) ==
    /\ n < MaxOps
    /\ SetAngle("div", div(a, x), [f |-> "div"])
Inverse ==
    /\ n < MaxOps
    /\ SetAngle("inverse", inverse(a), [f |-> "inverse"])
ToLatitude ==
    /\ n < MaxOps
    /\ SetAngle("to_latitude", to_latitude(a), [f |-> "to_latitude", x |-> a, of |-> arg])

Degrees ==
    /\ op' = "degrees" /\ out' = degrees(a)
    /\ UNCHANGED held
Clock ==
    /\ op' = "clock" /\ out' = clock(a)
    /\ UNCHANGED held
Degminsec ==
    /\ op' = "degminsec" /\ out' = degminsec(a)
    /\ UNCHANGED held
Eq ==
    /\ op' = "eq" /\ out' = eq(a, b)
    /\ UNCHANGED held
CoordEq(x, y) ==
    /\ op' = "coord_eq"
    /\ out' = [r |-> coord_eq(from_equatorial(a, b), from_equatorial(x, y)), x |-> x, y |-> y]
    /\ UNCHANGED held

FromJulian(x) ==
    /\ n < MaxOps
    /\ NewDate("from_julian", from_julian(x), [f |-> "from_julian", x |-> x])

(* term is what the code adds for the Gregorian calendar: GregorianTerm of *)
(* the year it computes with                                              *)
FromCalendar(y, m, d, t) ==
    /\ n < MaxOps
    /\ NewDate("from_calendar", from_calendar(y, m, d, t),
               [f |-> "from_calendar", y |-> y, m |-> m, d |-> d, t |-> t,
                term |-> GregorianTerm(ShiftedYear(y, m)), reading |-> FALSE])

(* from_calendar and from_unix of what calendar() and unix() have just returned *)
FromCalendarReading ==
    /\ n < MaxOps
    /\ op = "calendar"
    /\ NewDate("from_calendar", from_calendar(out[1], out[2], out[3], out[4]),
               [f |-> "from_calendar", y |-> out[1], m |-> out[2], d |-> out[3], t |-> out[4],
                term |-> GregorianTerm(ShiftedYear(out[1], out[2])), reading |-> TRUE])
FromUnix(t) ==
    /\ n < MaxOps
    /\ NewDate("from_unix", from_unix(t), [f |-> "from_unix", x |-> t, reading |-> FALSE])
FromUnixReading ==
    /\ n < MaxOps
    /\ op = "unix"
    /\ NewDate("from_unix", from_unix(out), [f |-> "from_unix", x |-> out, reading |-> TRUE])

Calendar ==
    /\ op' = "calendar" /\ out' = calendar(dt)
    /\ UNCHANGED held
Time ==
    /\ op' = "time" /\ out' = time(dt)
    /\ UNCHANGED held
Unix ==
    /\ op' = "unix" /\ out' = unix(dt)
    /\ UNCHANGED held

Refract ==
    /\ n < MaxOps
    /\ SetAngle("refract", refract(a), [f |-> "refract", x |-> a, of |-> arg])
Refractdelta ==
    /\ op' = "refractdelta" /\ out' = refractdelta(a)
    /\ UNCHANGED held

(* a.gst(d) and a.ungst(d): the Angle returned is held in out *)
Gst(d) ==
    /\ op' = "gst" /\ out' = [d |-> d, r |-> gst(a, d)]
    /\ UNCHANGED held
Ungst(d) ==
    /\ op' = "ungst" /\ out' = [d |-> d, r |-> ungst(a, d)]
    /\ UNCHANGED held

(* a.gst(d).ungst(d) and a.ungst(d).gst(d): the other method on what was returned *)
UngstReading ==
    /\ n < MaxOps
    /\ op = "gst"
    /\ NewAngle("gst.ungst", ungst(out.r, out.d), [f |-> "ungst", x |-> out.r, d |-> out.d])
GstReading ==
    /\ n < MaxOps
    /\ op = "ungst"
    /\ NewAngle("ungst.gst", gst(out.r, out.d), [f |-> "gst", x |-> out.r, d |-> out.d])

(* Coord::from_equatorial(Angle::from_clock(..), Angle::from_degminsec(..)) *)
FromEquatorial(x, y) ==
    /\ n < MaxOps
    /\ NewCoord("from_equatorial",
                from_equatorial(from_clock(x[1], x[2], x[3]), from_degminsec(y[1], y[2], y[3])),
                [f |-> "from_equatorial", ra |-> x, de |-> y])

(* c.horizon(date, time, lati, longi) of a Coord made by from_equatorial *)
Horizon(date, t, lati, longi) ==
    /\ arg.f = "from_equatorial"
    /\ op' = "horizon"
    /\ out' = [date |-> date, time |-> t, lati |-> lati, longi |-> longi,
               r |-> horizon(from_equatorial(a, b), date, t, lati, longi)]
    /\ UNCHANGED held

(* c.ecliptic(d) of a Coord made by from_equatorial *)
Ecliptic(d) ==
    /\ arg.f = "from_equatorial"
    /\ op' = "ecliptic"
    /\ out' = [d |-> d, r |-> ecliptic(from_equatorial(a, b), d)]
    /\ UNCHANGED held

(* Coord::from_ecliptic of the (lambda, beta) just read, for the same Date *)
FromEclipticReading ==
    /\ n < MaxOps
    /\ op = "ecliptic"
    /\ NewCoord("ecliptic.from_ecliptic", from_ecliptic(out.r[1], out.r[2], out.d),
                [f |-> "from_ecliptic", c |-> from_equatorial(a, b), at |-> out])

(* c.riseset(date, lati, longi) of a Coord made by from_equatorial *)
Riseset(date, lati, longi) ==
    /\ arg.f = "from_equatorial"
    /\ op' = "riseset"
    /\ out' = [date |-> date, lati |-> lati, longi |-> longi,
               r |-> riseset(from_equatorial(a, b), date, lati, longi)]
    /\ UNCHANGED held

(* Coord::from_horizon of the (azimuth, altitude) just read, for the same observer *)
FromHorizonReading ==
    /\ n < MaxOps
    /\ op = "horizon"
    /\ NewCoord("horizon.from_horizon",
                from_horizon(out.r[1], out.r[2], out.date, out.time, out.lati, out.longi),
                [f |-> "from_horizon", c |-> from_equatorial(a, b), at |-> out])

----------------------------------------------------------------------------
(* The Angle algebra: every constructor and operator, MaxOps values deep *)

Pow2F(k) == [s |-> 0, m |-> <<0, 0, 0, 128>>, e |-> k - 52]

Tiny == Pow2F(-70)

HalfPi == [PI EXCEPT !.e = -52]

RadInputs == {FNeg(Tiny), Tiny, FInt(-1), FInt(7), PI, TAU}
DegGrid == {FInt(-25), FInt(335), FInt(400), Dy(-771, 1), FInt(720), FInt(-180),
            Dy(-181, 1), FNeg(Tiny), Dy(4001, 2)}
TurnInputs == {Lit(1, 2), Lit(-3, 2)}
HourGrid == {FInt(8), Dy(47, 2), FInt(-30)}
ClockGrid == {<<1, 0, Zero>>, <<8, 0, Zero>>, <<11, 45, Zero>>, <<18, 31, FInt(27)>>,
              <<23, 59, Dy(119, 1)>>}
DmsGrid == {<<-16, 45, Lit(68, 10)>>, <<-25, 30, Zero>>, <<10, 1, Zero>>, <<45, 30, Dy(61, 2)>>,
            <<0, 0, FInt(30)>>, <<179, 59, Dy(119, 1)>>, <<359, 59, Dy(119, 1)>>}
AsinInputs == {FNeg(HalfPi), FNeg(Tiny), HalfPi}
AcosInputs == {Zero, PI}
Atan2Inputs == {FNeg(PI), FNeg(Tiny), PI}
Factors == {Lit(3, 2), FInt(-1), FInt(2)}
Divisors == {FInt(2), FInt(-3)}

Next ==
    \/ \E x \in RadInputs : FromRadians(x)
    \/ \E x \in DegGrid : FromDegrees(x)
    \/ \E x \in TurnInputs : FromTurns(x)
    \/ \E x \in HourGrid : FromDecimal(x)
    \/ \E t \in ClockGrid : FromClock(t[1], t[2], t[3])
    \/ \E t \in DmsGrid : FromDegminsec(t[1], t[2], t[3])
    \/ \E r \in AsinInputs : Asin(r)
    \/ \E r \in AcosInputs : Acos(r)
    \/ \E r \in Atan2Inputs : Atan2(r)
    \/ Add
    \/ Sub
    \/ \E x \in Factors : Mul(x)
    \/ \E x \in Divisors : Div(x)
    \/ Inverse
    \/ ToLatitude

Spec == Init /\ [][Next]_vars

InRange(x) == FGe(radians(x), Zero) /\ FLt(radians(x), TAU)

(* C1: every Angle a constructor or an operator returns has radians() in   *)
(* [0, 2*pi); only to_latitude may leave that range, and its result lies   *)
(* in (-pi, pi], equals its input modulo 2*pi, and is the input itself     *)
(* when the input is at most pi.                                           *)
C1_AnglesNormalized ==
    /\ arg.f # "to_latitude" => InRange(a)
    /\ arg2.f # "to_latitude" => InRange(b)
    /\ arg.f = "to_latitude" =>
          /\ FGt(a, FNeg(PI)) /\ FLe(a, PI)
          /\ a = arg.x \/ a = FSub(arg.x, TAU)
          /\ FLe(arg.x, PI) => a = arg.x

----------------------------------------------------------------------------
(* Equality of Angles and of Coords, on angles around arcminute boundaries *)

EqDms == {<<10, 0, Lit(1, 2)>>, <<10, 0, Lit(119, 2)>>, <<10, 1, Lit(1, 2)>>,
          <<10, 1, FInt(59)>>, <<359, 59, Lit(119, 2)>>}
EqClocks == {<<18, 31, FInt(27)>>}
EqHours == {Lit(1852417, 100000)}

NextEq ==
    \/ \E t \in EqDms : FromDegminsec(t[1], t[2], t[3])
    \/ \E t \in EqClocks : FromClock(t[1], t[2], t[3])
    \/ \E x \in EqHours : FromDecimal(x)
    \/ Eq
    \/ \E c \in {a, b} \X {a, b} : CoordEq(c[1], c[2])

SpecEq == Init /\ [][NextEq]_vars

SameCell(x, y) ==
    /\ degminsec(x)[1] = degminsec(y)[1]
    /\ degminsec(x)[2] = degminsec(y)[2]

(* C2: a == b holds exactly when the degree and the arcminute components   *)
(* of a.degminsec() and b.degminsec() are the same, whatever the           *)
(* arcseconds; two Coords are equal exactly when both their components are *)
C2_CoarseEquality ==
    /\ op = "eq" => (out = SameCell(a, b))
    /\ op = "coord_eq" => (out.r = (SameCell(a, out.x) /\ SameCell(b, out.y)))

(* two Coords have compared equal whose components differ in the arcseconds *)
C2_Witness ==
    /\ op = "coord_eq" /\ out.r
    /\ degminsec(a)[3] # degminsec(out.x)[3]
    /\ degminsec(b)[3] # degminsec(out.y)[3]

(* the orientation-free distance of two angles, in degrees *)
DegreesApart(x, y) == FAbs(FSub(degrees(x), degrees(y)))

OneArcminute == Lit(1, 60)

----------------------------------------------------------------------------
(* Degrees in and out: from_degrees, to_latitude, degrees *)

NextDeg ==
    \/ \E d \in DegGrid : FromDegrees(d)
    \/ ToLatitude
    \/ Degrees

SpecDeg == Init /\ [][NextDeg]_vars

F360 == FInt(360)

(* the least positive residue of d modulo 360, rounded once *)
Residue360(d) ==
    IF FLt(FRem(d, F360), Zero) THEN FAdd(FRem(d, F360), F360) ELSE FRem(d, F360)

(* what the roundings of a conversion to radians and back may add up to, in degrees *)
RoundingDeg == Pow2F(-36)

NearDeg(x, y) == FLe(FAbs(FSub(x, y)), RoundingDeg)

----------------------------------------------------------------------------
(* The time of day in and out: from_clock, from_decimal, clock *)

NextClock ==
    \/ \E t \in ClockGrid : FromClock(t[1], t[2], t[3])
    \/ \E x \in HourGrid : FromDecimal(x)
    \/ Clock
    \/ FromClockReading
    \/ Eq

SpecClock == Init /\ [][NextClock]_vars

(* what the roundings of a conversion may add up to, in seconds of time or of arc *)
RoundingSec == Pow2F(-20)

NearSec(x, y) == FLe(FAbs(FSub(x, y)), RoundingSec)

(* h + (m + s / 60) / 60 *)
HoursOf(h, m, s) == FAdd(FInt(h), FDiv(FAdd(FInt(m), FDiv(s, Sixty)), Sixty))

(* C5: from_clock(h, m, s).clock() returns h, m and, up to rounding, s;    *)
(* from_clock of the clock() of an angle equals the angle; from_decimal    *)
(* and from_clock of the same time of day are equal                        *)
C5_ClockRoundTrip ==
    /\ op = "clock" /\ arg.f = "from_clock" /\ ~arg.reading =>
          out[1] = arg.h /\ out[2] = arg.m /\ NearSec(out[3], arg.s)
    /\ op = "eq" /\ arg.f = "from_clock" /\ arg.reading => out
    /\ op = "eq" /\ arg.f = "from_decimal" /\ arg2.f = "from_clock"
         /\ arg.x = HoursOf(arg2.h, arg2.m, arg2.s) => out

----------------------------------------------------------------------------
(* Degrees, arcminutes and arcseconds in and out *)

NextDms ==
    \/ \E t \in DmsGrid : FromDegminsec(t[1], t[2], t[3])
    \/ ToLatitude
    \/ Degminsec
    \/ FromDegminsecReading

SpecDms == Init /\ [][NextDms]_vars

(* d degrees m' s" in arcseconds, d giving the sign *)
ArcSeconds(d, m, s) ==
    IF d < 0 THEN FNeg(FAdd(FInt(-d * 3600 + m * 60), s))
    ELSE FAdd(FInt(d * 3600 + m * 60), s)

SameDms(r, x) == NearSec(ArcSeconds(r[1], r[2], r[3]), ArcSeconds(x.d, x.m, x.s))

(* C6: degminsec() of from_degminsec(d, m, s), through to_latitude() when  *)
(* d is negative, is (d, m, s) up to rounding; from_degminsec of the       *)
(* degminsec() of an angle or latitude is that angle up to rounding        *)
C6_DegminsecRoundTrip ==
    /\ op = "degminsec" /\ arg.f = "from_degminsec" /\ ~arg.reading /\ arg.d >= 0 =>
          SameDms(out, arg)
    /\ op = "degminsec" /\ arg.f = "to_latitude" /\ arg.of.f = "from_degminsec"
         /\ ~arg.of.reading /\ arg.of.d < 0 =>
          SameDms(out, arg.of)
    /\ arg.f = "from_degminsec" /\ arg.reading =>
          NearSec(FMul(degrees(a), FInt(3600)), FMul(degrees(b), FInt(3600)))

----------------------------------------------------------------------------
(* Calendar dates in and out: from_calendar, from_julian, calendar, time,  *)
(* on dates around the calendar switch of 1582 and far from it             *)

(* valid calendar dates: 4 October 1582 is the last day of the Julian      *)
(* calendar and 15 October 1582 the first of the Gregorian                 *)
CalGrid == {<<1985, 2, 17>>, <<1000, 10, 20>>, <<1582, 2, 28>>, <<1582, 3, 1>>,
            <<1582, 10, 4>>, <<1582, 10, 15>>, <<1583, 1, 1>>}

(* times of day: 0h (Angle::default()), 6h and 12h30 *)
TimeGrid == {Zero, from_decimal(FInt(6)), from_clock(12, 30, Zero)}

(* 2446113.75 is 1985-02-17 6h; 2299159.5 is 4 October 1582 0h and 2299160.5 *)
(* is 15 October 1582 0h, the days either side of the switch                 *)
JulGrid == {Dy(9784455, 2), Dy(4598319, 1), Dy(4598321, 1)}

NextDate ==
    \/ \E c \in CalGrid : \E t \in TimeGrid : FromCalendar(c[1], c[2], c[3], t)
    \/ \E x \in JulGrid : FromJulian(x)
    \/ Calendar
    \/ Time
    \/ FromCalendarReading

SpecDate == Init /\ [][NextDate]_vars

(* what the roundings of a conversion may add up to, in days *)
RoundingDay == Pow2F(-28)

NearDay(x, y) == FLe(FAbs(FSub(x, y)), RoundingDay)

(* C7: calendar() of from_calendar(y, m, d, t) is (y, m, d, t), the time   *)
(* of day compared by the equality of Angles; time() of it is t; and       *)
(* from_calendar of the calendar() of a Date is that Date, up to rounding  *)
C7_CalendarRoundTrip ==
    /\ op = "calendar" /\ arg.f = "from_calendar" =>
          out[1] = arg.y /\ out[2] = arg.m /\ out[3] = arg.d /\ eq(out[4], arg.t)
    /\ op = "time" /\ arg.f = "from_calendar" => eq(out, arg.t)
    /\ arg.f = "from_calendar" /\ arg.reading => NearDay(julian(dt), julian(dt2))

(* the calendar date is 15 October 1582 or a later one *)
OnOrAfterSwitch(y, m, d) ==
    y > 1582 \/ (y = 1582 /\ (m > 10 \/ (m = 10 /\ d >= 15)))

(* C8: from_calendar adds 2 - year/100 + year/400 exactly for the calendar *)
(* dates on or after 1582-10-15 and nothing for an earlier date, and       *)
(* calendar() takes its Gregorian branch exactly for the Julian days on or *)
(* after 2299160.5, which is 1582-10-15 0h                                 *)
C8_GregorianSwitch ==
    /\ arg.f = "from_calendar" =>
          arg.term = IF OnOrAfterSwitch(arg.y, arg.m, arg.d)
                     THEN 2 - (ShiftedYear(arg.y, arg.m) \div 100)
                            + (ShiftedYear(arg.y, arg.m) \div 400)
                     ELSE 0
    /\ op = "calendar" =>
          (calendar_gregorian(FTrunc(FAdd(julian(dt), Dy(1, 1))))
              <=> FGe(julian(dt), Dy(4598321, 1)))

(* p is earlier than q in calendar order *)
CalBefore(p, q) ==
    \/ p.y < q.y
    \/ p.y = q.y /\ p.m < q.m
    \/ p.y = q.y /\ p.m = q.m /\ p.d < q.d
    \/ p.y = q.y /\ p.m = q.m /\ p.d = q.d /\ FLt(radians(p.t), radians(q.t))

(* C9: of two calendar date-times given to from_calendar, the earlier one  *)
(* has the smaller Julian day number, so that no two of them share a       *)
(* Julian day number                                                       *)
C9_Monotonic ==
    arg.f = "from_calendar" /\ arg2.f = "from_calendar" /\ ~arg.reading /\ ~arg2.reading =>
        /\ CalBefore(arg2, arg) => FLt(julian(dt2), julian(dt))
        /\ CalBefore(arg, arg2) => FLt(julian(dt), julian(dt2))

----------------------------------------------------------------------------
(* Unix time in and out: from_julian, from_unix, unix *)

(* seconds since 1970-01-01 0h: the epoch, 1985-02-17 6h, 2001-09-09       *)
(* 1h46m40s, and 1582-10-15 0h, which is -141427 days                      *)
UnixGrid == {Zero, FInt(477468000), FInt(1000000000), FMul(FInt(-141427), FInt(86400))}

NextUnix ==
    \/ \E x \in JulGrid \cup {Dy(4881175, 1), Lit(1, 10)} : FromJulian(x)
    \/ \E t \in UnixGrid : FromUnix(t)
    \/ Unix
    \/ FromUnixReading

SpecUnix == Init /\ [][NextUnix]_vars

EpochDay == Dy(4881175, 1)

SecondsPerDay == FInt(86400)

(* what the roundings of the two conversions may add up to, in seconds *)
RoundingUnix == Pow2F(-13)

NearUnix(x, y) == FLe(FAbs(FSub(x, y)), RoundingUnix)

(* C10 as stated: from_unix of the unix() of a Date is that Date, and      *)
(* unix() of the from_unix of a number of seconds is that number           *)
C10_ExactInverses ==
    /\ arg.f = "from_unix" /\ arg.reading => dt = dt2
    /\ op = "unix" /\ arg.f = "from_unix" => out = arg.x

(* C10 amended: unix() is (julian - 2440587.5) * 86400 and from_unix is    *)
(* t / 86400 + 2440587.5, each rounded as f64 arithmetic rounds; they are  *)
(* inverses up to that rounding; unix() of the Julian day 2440587.5 is 0;  *)
(* and the seconds between two Dates are 86400 times the days between      *)
(* them, on either side of 1582-10-15 too                                  *)
C10_InversesUpToRounding ==
    /\ op = "unix" => out = FMul(FSub(julian(dt), EpochDay), SecondsPerDay)
    /\ arg.f = "from_unix" => julian(dt) = FAdd(FDiv(arg.x, SecondsPerDay), EpochDay)
    /\ arg.f = "from_unix" /\ arg.reading => NearDay(julian(dt), julian(dt2))
    /\ op = "unix" /\ arg.f = "from_unix" => NearUnix(out, arg.x)
    /\ op = "unix" /\ julian(dt) = EpochDay => out = Zero
    /\ op = "unix" =>
          NearUnix(FSub(out, unix(dt2)), FMul(FSub(julian(dt), julian(dt2)), SecondsPerDay))

(* a Date before 1582-10-15 went to Unix seconds and came back as another  *)
(* Date, a rounding error away                                             *)
C10_Witness ==
    /\ arg.f = "from_unix" /\ arg.reading
    /\ FLt(julian(dt2), Dy(4598321, 1))
    /\ julian(dt) # julian(dt2)
    /\ NearDay(julian(dt), julian(dt2))

----------------------------------------------------------------------------
(* Sidereal time: gst and ungst *)

(* 14:36:51.6 and 4:40:05.23 are the times of test_gst; 12:00:00 lies on   *)
(* an arcminute boundary, 23:58:30 in the last four minutes of the day     *)
GstClocks == {<<14, 36, [s |-> 0, m |-> <<19661, 6553, 13107, 206>>, e |-> -47]>>,
              <<4, 40, [s |-> 0, m |-> <<20972, 15728, 11796, 167>>, e |-> -50]>>,
              <<0, 0, Zero>>, <<12, 0, Zero>>, <<12, 0, FInt(30)>>, <<23, 58, FInt(30)>>}

(* the Julian days 2444351.5 (test_gst) and 2451545.0 *)
GstDays == {Dy(4888703, 1), FInt(2451545)}

NextGst ==
    \/ \E t \in GstClocks : FromClock(t[1], t[2], t[3])
    \/ \E d \in GstDays : Gst(d)
    \/ \E d \in GstDays : Ungst(d)
    \/ UngstReading
    \/ GstReading

SpecGst == Init /\ [][NextGst]_vars

RoundingGst == Pow2F(-25)

NearHours(x, y) == FLe(FAbs(FSub(x, y)), RoundingGst)

----------------------------------------------------------------------------
(* Atmospheric refraction: refractdelta and refract, on altitudes above,   *)
(* on and below the horizon                                                *)

AltGrid == {FInt(25), FInt(-25), Zero, FInt(90), FInt(45), FInt(180), Dy(1, 1),
            [s |-> 0, m |-> <<26214, 19660, 31129, 179>>, e |-> -44]}

NextRefract ==
    \/ \E x \in AltGrid : FromDegrees(x)
    \/ Refract
    \/ Refractdelta

SpecRefract == Init /\ [][NextRefract]_vars

(* the altitude is above the horizon: in (0, 180] degrees *)
AboveHorizon(x) == FGt(radians(x), Zero) /\ FLe(radians(x), PI)

(* C12: refract() of an altitude above the horizon is the altitude plus    *)
(* its refractdelta(), and refract() of an altitude on or below the        *)
(* horizon is the altitude itself; -25 degrees stays -25 degrees           *)
C12_RefractAboveHorizon ==
    /\ arg.f = "refract" /\ AboveHorizon(arg.x) => a = add(arg.x, refractdelta(arg.x))
    /\ arg.f = "refract" /\ ~AboveHorizon(arg.x) => a = arg.x
    /\ arg.f = "refract" /\ arg.of.f = "from_degrees" /\ arg.of.x = FInt(-25) =>
          eq(a, from_degminsec(-25, 0, Zero))
    /\ op = "refractdelta" /\ arg.f = "from_degrees" /\ arg.x = FInt(25) =>
          eq(out, from_degminsec(0, 2, Lit(92, 10)))

(* an altitude of 25 degrees was raised by its refractdelta of 2'9" *)
C12_Witness ==
    /\ arg.f = "refract" /\ arg.of.f = "from_degrees" /\ arg.of.x = FInt(25)
    /\ a # arg.x
    /\ degminsec(sub(a, arg.x)) [2] = 2

----------------------------------------------------------------------------
(* Horizon coordinates: horizon and from_horizon *)

(* Sirius and Arcturus of test_horiz, and a star at 6h, +45 degrees *)
Stars ==
    {<<(<<6, 46, [s |-> 0, m |-> <<13107, 26214, 19660, 209>>, e |-> -49]>>),
       (<<-16, 45, [s |-> 0, m |-> <<13107, 26214, 19660, 217>>, e |-> -50]>>)>>,
     <<(<<14, 16, FInt(50)>>),
       (<<19, 2, [s |-> 0, m |-> <<19661, 6553, 13107, 200>>, e |-> -47]>>)>>,
     <<(<<6, 0, Zero>>), (<<45, 0, Zero>>)>>}

(* the observers of test_horiz: 2025-03-10, 2025-03-07 and 2025-03-11 at 0h are the   *)
(* Julian days 2460744.5, 2460741.5 and 2460745.5; and observers at noon of 2000-01-01 *)
Observers ==
    {[date |-> Dy(4921489, 1), time |-> from_clock(19, 52, FInt(25)),
      lati |-> from_degrees([s |-> 0, m |-> <<22597, 27105, 29995, 221>>, e |-> -47]),
      longi |-> from_degrees([s |-> 0, m |-> <<21150, 30083, 30975, 133>>, e |-> -45])],
     [date |-> Dy(4921483, 1), time |-> from_clock(23, 36, FInt(52)),
      lati |-> from_degrees(FInt(5)), longi |-> from_degrees(FInt(-1))],
     [date |-> Dy(4921491, 1), time |-> from_clock(2, 0, Zero),
      lati |-> from_degrees([s |-> 0, m |-> <<24065, 4613, 15912, 179>>, e |-> -47]),
      longi |-> from_degrees([s |-> 1, m |-> <<20332, 4697, 13632, 186>>, e |-> -46])],
     [date |-> FInt(2451545), time |-> Zero,
      lati |-> from_degrees(FInt(-35)), longi |-> Zero],
     [date |-> FInt(2451545), time |-> from_clock(2, 0, Zero),
      lati |-> from_degrees(FInt(45)), longi |-> from_degrees(FInt(90))]}

(* the observer o moved to the longitude where right ascension x is on the meridian *)
OnMeridian(o, x) == [o EXCEPT !.longi = sub(x, gst(o.time, o.date))]

NextHorizon ==
    \/ \E c \in Stars : FromEquatorial(c[1], c[2])
    \/ \E o \in Observers : Horizon(o.date, o.time, o.lati, o.longi)
    \/ \E o \in {OnMeridian(p, a) : p \in Observers} :
           Horizon(o.date, o.time, o.lati, o.longi)
    \/ FromHorizonReading

SpecHorizon == Init /\ [][NextHorizon]_vars

(* C13: from_horizon inverts horizon: for every Coord c, Date, local time, observer     *)
(* latitude and longitude, Coord::from_horizon(az, alt, date, time, lat, long) with     *)
(* (az, alt) = c.horizon(date, time, lat, long) equals c under the coarse equality      *)
C13_FromHorizonInvertsHorizon ==
    arg.f = "from_horizon" =>
        /\ ~IsNaN(a) /\ ~IsNaN(b)
        /\ coord_eq(from_equatorial(a, b), arg.c)

----------------------------------------------------------------------------
(* Ecliptic coordinates: ecliptic and from_ecliptic *)

(* the star of test_ecliptic, Sirius, a star at 6h, +45 degrees, one at 12h on the *)
(* equator and one at 18h, -30 degrees                                             *)
EclStars ==
    {<<(<<9, 34, [s |-> 0, m |-> <<19661, 6553, 13107, 214>>, e |-> -47]>>),
       (<<19, 32, [s |-> 0, m |-> <<26214, 19660, 6553, 227>>, e |-> -49]>>)>>,
     <<(<<6, 46, [s |-> 0, m |-> <<13107, 26214, 19660, 209>>, e |-> -49]>>),
       (<<-16, 45, [s |-> 0, m |-> <<13107, 26214, 19660, 217>>, e |-> -50]>>)>>,
     <<(<<6, 0, Zero>>), (<<45, 0, Zero>>)>>,
     <<(<<12, 0, Zero>>), (<<0, 0, Zero>>)>>,
     <<(<<18, 0, Zero>>), (<<-30, 0, Zero>>)>>}

(* from_calendar(1950, 0, 1, 0h) of test_ecliptic, 2000-01-01 12h and 2025-03-11 0h *)
EclDays == {Dy(4866503, 1), FInt(2451545), Dy(4921491, 1)}

NextEcliptic ==
    \/ \E c \in EclStars : FromEquatorial(c[1], c[2])
    \/ \E d \in EclDays : Ecliptic(d)
    \/ FromEclipticReading

SpecEcliptic == Init /\ [][NextEcliptic]_vars

(* C14: from_ecliptic inverts ecliptic: for every Coord c and every Date d, with      *)
(* (lambda, beta) = c.ecliptic(d), Coord::from_ecliptic(lambda, beta, d) equals c     *)
(* under the coarse equality, both using mean_obliquity_ecl(d)                        *)
C14_FromEclipticInvertsEcliptic ==
    arg.f = "from_ecliptic" =>
        /\ ~IsNaN(a) /\ ~IsNaN(b)
        /\ coord_eq(from_equatorial(a, b), arg.c)

----------------------------------------------------------------------------
(* Rise and set times: riseset *)

(* the star of test_riseset, and stars at 6h with declinations +45, -30 and +60 degrees *)
RiseStars ==
    {<<(<<23, 39, FInt(20)>>), (<<21, 42, Zero>>)>>,
     <<(<<6, 0, Zero>>), (<<45, 0, Zero>>)>>,
     <<(<<6, 0, Zero>>), (<<-30, 0, Zero>>)>>,
     <<(<<6, 0, Zero>>), (<<60, 0, Zero>>)>>}

(* the two observers of test_riseset, and observers on the Greenwich meridian *)
RiseObservers ==
    {<<30, 64>>, <<-85, 0>>, <<45, 0>>, <<-45, 0>>, <<60, 0>>, <<-30, 0>>}

(* from_calendar(1980, 8, 24, 0h) of test_riseset *)
RiseDay == Dy(4888951, 1)

NextRiseset ==
    \/ \E c \in RiseStars : FromEquatorial(c[1], c[2])
    \/ \E o \in RiseObservers :
           Riseset(RiseDay, from_degrees(FInt(o[1])), from_degrees(FInt(o[2])))

SpecRiseset == Init /\ [][NextRiseset]_vars

(* |latitude| + |declination| in degrees, both read as signed angles *)
PoleSum(lati, de) ==
    FAdd(FAbs(degrees(to_latitude(lati))), FAbs(degrees(to_latitude(de))))

(* C15: riseset returns None exactly when |latitude| + |declination| > 90 degrees, and *)
(* Some((rise, set)) with no NaN time otherwise                                        *)
C15_NoneExactlyBeyondPole ==
    op = "riseset" =>
        /\ (out.r = None) <=> FGt(PoleSum(out.lati, b), FInt(90))
        /\ out.r # None => ~IsNaN(out.r[1]) /\ ~IsNaN(out.r[2])

RoundingPole == Pow2F(-30)

(* C15, amended: None when |latitude| + |declination| is above 90 degrees by more than *)
(* rounding, Some((rise, set)) with no NaN time when it is below by more than rounding; *)
(* the two results of test_riseset                                                      *)
C15_NoneBeyondPole ==
    op = "riseset" =>
        /\ FGt(PoleSum(out.lati, b), FAdd(FInt(90), RoundingPole)) => out.r = None
        /\ FLt(PoleSum(out.lati, b), FSub(FInt(90), RoundingPole)) => out.r # None
        /\ out.r # None => ~IsNaN(out.r[1]) /\ ~IsNaN(out.r[2])
        /\ arg.ra[1] = 23 /\ out.longi = from_degrees(FInt(64)) =>
               /\ out.r # None
               /\ eq(out.r[1], from_clock(14, 18, FInt(9)))
               /\ eq(out.r[2], from_clock(4, 6, FInt(5)))
        /\ arg.ra[1] = 23 /\ out.lati = from_degrees(FInt(-85)) => out.r = None

(* the star of test_riseset never rises at latitude -85 degrees *)
C15_Witness ==
    /\ op = "riseset"
    /\ arg.ra[1] = 23
    /\ out.lati = from_degrees(FInt(-85))
    /\ FGt(PoleSum(out.lati, b), FInt(90))
    /\ out.r = None

----------------------------------------------------------------------------
(* sol.rs: where a planet is                                               *)

(* p.location(d) for the Date just made; v is the vector handed on *)
LocationFrom(p, v) ==
    NewCoord("location", location_of(v), [f |-> "location", p |-> p.number, d |-> dt, v |-> v])

Location(p) ==
    /\ n < MaxOps
    /\ op = "from_julian"
    /\ LocationFrom(p, location_vector(p, dt))

(* p.distance(d) for the Date just made *)
Distance(p) ==
    /\ op = "from_julian"
    /\ op' = "distance"
    /\ out' = [p |-> p.number, d |-> dt, r |-> distance(p, dt)]
    /\ UNCHANGED held

(* 2000-01-01 12:00, the instant of test_planet, and 1996-06-22 of test_phase *)
PlanetDays ==
    {[s |-> 0, m |-> <<0, 0, 20658, 149>>, e |-> -31],
     [s |-> 0, m |-> <<18958, 27440, 6296, 150>>, e |-> -31],
     [s |-> 0, m |-> <<0, 0, 18081, 149>>, e |-> -31]}

Bodies == {PLANETS[k] : k \in 1..9}

NextPlanet ==
    \/ \E d \in PlanetDays : FromJulian(d)
    \/ \E p \in Bodies : Location(p)
    \/ \E p \in Bodies : Distance(p)

SpecPlanet == Init /\ [][NextPlanet]_vars

----------------------------------------------------------------------------
(* The solution of Kepler's equation: the loop of Planet::locationcart     *)
(* (sol.rs), the same loop of SegmentedPlanet::locationcart (probe.rs) and *)
(* misc::kepler, one pass of the loop at a time. While a call is in its    *)
(* loop, op is the name of the loop and out holds the call's variables,    *)
(* and with them (before) the values the loop variables had at the head of *)
(* the loop in the passes the call has made.                               *)

(* the SegmentedPlanet constants of probe.rs with an orbit of their own *)
VOYAGER2TEST ==
    [a |-> [s |-> 1, m |-> <<23153, 32657, 1813, 251>>, e |-> -51],
     e |-> [s |-> 0, m |-> <<2635, 24399, 23307, 220>>, e |-> -51],
     i |-> [s |-> 0, m |-> <<10561, 22600, 13971, 170>>, e |-> -51],
     w |-> [s |-> 0, m |-> <<13606, 4489, 30002, 154>>, e |-> -46],
     o |-> [s |-> 0, m |-> <<32146, 4979, 10586, 193>>, e |-> -47],
     l |-> [s |-> 0, m |-> <<26214, 19660, 2457, 149>>, e |-> -44],
     l_delta_century |-> [s |-> 0, m |-> <<24585, 25336, 12135, 216>>, e |-> -37],
     l_epoch |-> [s |-> 0, m |-> <<0, 0, 8905, 149>>, e |-> -31]]

PARKERTEST ==
    [a |-> [s |-> 0, m |-> <<16467, 13789, 29736, 198>>, e |-> -54],
     e |-> [s |-> 0, m |-> <<18925, 32677, 25421, 225>>, e |-> -53],
     i |-> [s |-> 0, m |-> <<19499, 9284, 9706, 217>>, e |-> -51],
     w |-> [s |-> 0, m |-> <<11593, 30864, 30214, 136>>, e |-> -46],
     o |-> [s |-> 0, m |-> <<31136, 8459, 9456, 153>>, e |-> -46],
     l |-> [s |-> 0, m |-> <<27525, 28835, 21626, 238>>, e |-> -44],
     l_delta_century |-> [s |-> 0, m |-> <<15624, 11062, 6073, 145>>, e |-> -35],
     l_epoch |-> [s |-> 0, m |-> <<0, 0, 6657, 150>>, e |-> -31]]

HALLEY ==
    [a |-> [s |-> 0, m |-> <<10535, 20422, 28606, 142>>, e |-> -48],
     e |-> [s |-> 0, m |-> <<11931, 24876, 25592, 247>>, e |-> -53],
     i |-> [s |-> 0, m |-> <<18295, 24246, 4951, 162>>, e |-> -45],
     w |-> [s |-> 0, m |-> <<18517, 31002, 30826, 224>>, e |-> -46],
     o |-> [s |-> 0, m |-> <<26809, 10765, 9489, 238>>, e |-> -47],
     l |-> [s |-> 0, m |-> <<6554, 13107, 1638, 180>>, e |-> -44],
     l_delta_century |-> [s |-> 0, m |-> <<0, 0, 20480, 182>>, e |-> -44],
     l_epoch |-> [s |-> 0, m |-> <<0, 0, 6657, 150>>, e |-> -31]]

(* let t = (d.julian() - self.l_epoch.julian()) / 36525.0 *)
probe_centuries(p, d) == FDiv(FSub(julian(d), julian(p.l_epoch)), [s |-> 0, m |-> <<0, 0, 22144, 142>>, e |-> -37])

(* (l - w).degrees(), then Angle::from_degrees(m).to_latitude().degrees() *)
probe_latitude(m) ==
    CASE IsF64(m) -> degrees(to_latitude(from_degrees(m)))

probe_anomaly(p, t) ==
    CASE IsF64(t) ->
        probe_latitude(degrees(sub(from_degrees(FAdd(p.l, FMul(p.l_delta_century, t))),
                                   from_degrees(p.w))))

(* eprintln!("{}", l.degrees()) with l = from_degrees(self.l + (self.l_delta_century * t)): *)
(* the lines the call writes to stderr, a line standing as the f64 it prints                *)
probe_eprintln(p, t) ==
    CASE IsF64(t) -> <<degrees(from_degrees(FAdd(p.l, FMul(p.l_delta_century, t))))>>

(* the coordinates SegmentedPlanet::locationcart returns when e < 1.0 *)
probe_cartesian(p, ee) ==
    cartesian(p.a, p.e, ee, radians(sub(from_degrees(p.w), from_degrees(p.o))),
              radians(from_degrees(p.o)), radians(from_degrees(p.i)))

(* the variables of a call at the head of `while de.abs() > 1e-7` *)
newton_entry(kind, p, d, m, e) ==
    CASE IsF64(m) /\ IsF64(e) ->
        [kind |-> kind, p |-> p, d |-> d, m |-> m, e |-> e,
         ee |-> first_guess(m, e), de |-> [s |-> 0, m |-> <<0, 0, 0, 128>>, e |-> -52], before |-> {}]

(* de = kepler(m, e, ee); ee += de; *)
newton_pass(o, de) ==
    CASE IsF64(de) ->
        [o EXCEPT !.ee = FAdd(o.ee, de), !.de = de, !.before = @ \cup {<<o.ee, o.de>>}]

planet_entry(p, d, el, t) ==
    CASE IsF64(el.a) ->
        newton_entry("Planet", p, d, while_above_180(mean_anomaly(p, el, t)), el.e)

(* misc::kepler: delta = e - ecc * e.sin() - m *)
kepler_delta(e, ecc, m) == FSub(FSub(e, FMul(ecc, f64_sin(e))), m)

(* e -= delta / (1.0 - ecc * e.cos()) *)
kepler_pass(o, delta) ==
    CASE IsF64(delta) ->
        [o EXCEPT !.delta = delta,
                  !.e = FSub(o.e, FDiv(delta, FSub([s |-> 0, m |-> <<0, 0, 0, 128>>, e |-> -52], FMul(o.ecc, f64_cos(o.e)))))]

kepler_update(o) ==
    kepler_pass([o EXCEPT !.before = @ \cup {<<o.e, o.delta>>}], kepler_delta(o.e, o.ecc, o.m))

(* delta.abs() > 1E-6 *)
kepler_running(delta) == FGt(FAbs(delta), [s |-> 0, m |-> <<28045, 16747, 7134, 134>>, e |-> -72])

Looping == op \in {"newton", "kepler: while"}

(* p.locationcart(d) of a Planet enters its loop *)
PlanetLocationcart(p, d) ==
    /\ ~Looping
    /\ op' = "newton"
    /\ out' = planet_entry(p, d, elements(p, centuries(d)), centuries(d))
    /\ UNCHANGED held

(* p.locationcart(d) of a SegmentedPlanet enters its loop *)
ProbeLocationcart(p, d) ==
    /\ ~Looping
    /\ op' = "newton"
    /\ out' = newton_entry("SegmentedPlanet", p, d, probe_anomaly(p, probe_centuries(p, d)), p.e)
    /\ UNCHANGED held

(* one pass of the loop of either locationcart *)
NewtonPass ==
    /\ op = "newton"
    /\ newton_running(out.de)
    /\ out' = newton_pass(out, locationcart_kepler(out.m, out.e, out.ee))
    /\ UNCHANGED <<op, held>>

(* Planet::locationcart leaves its loop and returns (tx, ty, tz) *)
PlanetReturn ==
    /\ op = "newton" /\ out.kind = "Planet"
    /\ ~newton_running(out.de)
    /\ op' = "locationcart"
    /\ out' = [kind |-> out.kind, p |-> out.p, d |-> out.d, m |-> out.m, e |-> out.e,
               ee |-> out.ee,
               r |-> locationcart_after(elements(out.p, centuries(out.d)), out.ee),
               stderr |-> <<>>]
    /\ UNCHANGED held

(* SegmentedPlanet::locationcart leaves its loop with e < 1.0, writes l.degrees() to *)
(* stderr and returns (tx, ty, tz)                                                  *)
ProbeReturn ==
    /\ op = "newton" /\ out.kind = "SegmentedPlanet"
    /\ ~newton_running(out.de)
    /\ FLt(out.e, [s |-> 0, m |-> <<0, 0, 0, 128>>, e |-> -52])
    /\ op' = "locationcart"
    /\ out' = [kind |-> out.kind, p |-> out.p, d |-> out.d, m |-> out.m, e |-> out.e,
               ee |-> out.ee, r |-> probe_cartesian(out.p, out.ee),
               stderr |-> probe_eprintln(out.p, probe_centuries(out.p, out.d))]
    /\ UNCHANGED held

(* SegmentedPlanet::locationcart leaves its loop with e >= 1.0: todo!() panics *)
ProbeTodo ==
    /\ op = "newton" /\ out.kind = "SegmentedPlanet"
    /\ ~newton_running(out.de)
    /\ ~FLt(out.e, [s |-> 0, m |-> <<0, 0, 0, 128>>, e |-> -52])
    /\ op' = "todo!"
    /\ out' = [kind |-> out.kind, p |-> out.p, d |-> out.d, m |-> out.m, e |-> out.e,
               ee |-> out.ee]
    /\ UNCHANGED held

(* misc::kepler(m, ecc) reaches its loop: m = m.to_radians(), e = m, and the *)
(* first delta and e, which it computes before the loop                      *)
Kepler(m, ecc) ==
    /\ ~Looping
    /\ op' = "kepler: while"
    /\ out' = kepler_pass([kind |-> "kepler", m |-> to_radians(m), ecc |-> ecc,
                           e |-> to_radians(m), delta |-> Zero, before |-> {}],
                          kepler_delta(to_radians(m), ecc, to_radians(m)))
    /\ UNCHANGED held

(* one pass of the loop of misc::kepler *)
KeplerPass ==
    /\ op = "kepler: while"
    /\ kepler_running(out.delta)
    /\ out' = kepler_update(out)
    /\ UNCHANGED <<op, held>>

(* misc::kepler returns e *)
KeplerReturn ==
    /\ op = "kepler: while"
    /\ ~kepler_running(out.delta)
    /\ op' = "kepler"
    /\ out' = [kind |-> out.kind, m |-> out.m, ecc |-> out.ecc, r |-> out.e, stderr |-> <<>>]
    /\ UNCHANGED held

(* Julian days -700000000.0 and -900000000.0, far before any calendar *)
FarDays ==
    {[s |-> 1, m |-> <<0, 0, 29262, 166>>, e |-> -23],
     [s |-> 1, m |-> <<0, 0, 18898, 214>>, e |-> -23]}

(* 1983-11-30, 2025-09-09 (the epochs of the constants), 2000-01-01 12:00 and 1996-06-22 *)
ProbeDays ==
    {[s |-> 0, m |-> <<0, 0, 8905, 149>>, e |-> -31],
     [s |-> 0, m |-> <<0, 0, 6657, 150>>, e |-> -31],
     [s |-> 0, m |-> <<0, 0, 20658, 149>>, e |-> -31],
     [s |-> 0, m |-> <<0, 0, 18081, 149>>, e |-> -31]}

Probes == {VOYAGER2TEST, PARKERTEST, HALLEY}

(* mean anomalies in degrees and eccentricities given to misc::kepler *)
KeplerInputs ==
    {<<[s |-> 0, m |-> <<0, 0, 0, 240>>, e |-> -48], [s |-> 0, m |-> <<6554, 13107, 26214, 204>>, e |-> -56]>>,
     <<[s |-> 0, m |-> <<0, 0, 0, 180>>, e |-> -46], [s |-> 0, m |-> <<0, 0, 0, 128>>, e |-> -53]>>,
     <<[s |-> 1, m |-> <<0, 0, 0, 240>>, e |-> -46], [s |-> 0, m |-> <<19661, 6553, 13107, 230>>, e |-> -53]>>,
     <<[s |-> 0, m |-> <<0, 0, 0, 170>>, e |-> -45], [s |-> 0, m |-> <<28626, 3774, 26424, 136>>, e |-> -58]>>,
     <<[s |-> 0, m |-> <<0, 0, 0, 180>>, e |-> -47], Zero>>,
     <<[s |-> 0, m |-> <<0, 0, 0, 192>>, e |-> -51], [s |-> 0, m |-> <<18350, 30146, 14417, 253>>, e |-> -53]>>,
     <<[s |-> 0, m |-> <<0, 0, 0, 200>>, e |-> -45], [s |-> 0, m |-> <<6554, 13107, 26214, 204>>, e |-> -55]>>,
     <<[s |-> 1, m |-> <<8803, 10843, 11247, 224>>, e |-> -13], [s |-> 0, m |-> <<19661, 6553, 13107, 230>>, e |-> -53]>>}

NextKepler ==
    \/ \E p \in Bodies, d \in PlanetDays : PlanetLocationcart(p, d)
    \/ \E d \in FarDays : PlanetLocationcart(VENUS, d)
    \/ \E p \in Probes, d \in ProbeDays : ProbeLocationcart(p, d)
    \/ NewtonPass
    \/ PlanetReturn
    \/ ProbeReturn
    \/ ProbeTodo
    \/ \E x \in KeplerInputs : Kepler(x[1], x[2])
    \/ KeplerPass
    \/ KeplerReturn

SpecKepler == Init /\ [][NextKepler]_vars

(* C17: a body with eccentricity e >= 1 is turned away by locationcart     *)
(* before the Newton loop: no call for such a body is ever in the loop and *)
(* none returns coordinates                                                *)
C17_HyperbolicRejected ==
    op \in {"newton", "locationcart"} => FLt(out.e, [s |-> 0, m |-> <<0, 0, 0, 128>>, e |-> -52])

(* C19: the mean anomaly with which locationcart enters the Newton loop *)
(* lies in (-180, 180] degrees                                          *)
C19_AnomalyNormalized ==
    op = "newton" => FGt(out.m, [s |-> 1, m |-> <<0, 0, 0, 180>>, e |-> -45]) /\ FLe(out.m, [s |-> 0, m |-> <<0, 0, 0, 180>>, e |-> -45])

(* the eccentricity of the call in progress or just returned *)
Eccentricity == IF out.kind = "kepler" THEN out.ecc ELSE out.e

Elliptic == FGe(Eccentricity, Zero) /\ FLt(Eccentricity, [s |-> 0, m |-> <<0, 0, 0, 128>>, e |-> -52])

(* E - e sin E - M for the E returned, in the unit of the call: degrees in *)
(* locationcart, radians in misc::kepler                                   *)
Residual ==
    IF out.kind = "kepler" THEN kepler_delta(out.r, out.ecc, out.m)
    ELSE locationcart_dm(out.m, out.e, out.ee, f64_sin(to_radians(out.ee)))

(* the loop variables of the call in its loop *)
LoopState == IF op = "newton" THEN <<out.ee, out.de>> ELSE <<out.e, out.delta>>

(* C18: for an eccentricity 0 <= e < 1 and any mean anomaly the Newton loop *)
(* of locationcart and of misc::kepler is left after a bounded number of    *)
(* passes, so that it is never at its head with the values it had there in  *)
(* an earlier pass of the same call, from which it would repeat itself for  *)
(* ever; and the eccentric anomaly returned has |E - e sin E - M| < 1e-6    *)
C18_KeplerTerminates ==
    /\ Looping /\ Elliptic => LoopState \notin out.before
    /\ op \in {"locationcart", "kepler"} /\ Elliptic => FLt(FAbs(Residual), [s |-> 0, m |-> <<28045, 16747, 7134, 134>>, e |-> -72])

----------------------------------------------------------------------------
(* sol.rs: the phase of a planet                                           *)

(* what p.illumfrac(d) returns, pa being what its call of phaseangle returned *)
illumfrac_reading(p, d, pa) ==
    [p |-> p.number, d |-> d, pa |-> pa, r |-> illumfrac_angle(p.number, pa)]

(* p.illumfrac(d) for the Date just made *)
Illumfrac(p) ==
    /\ op = "from_julian"
    /\ op' = "illumfrac"
    /\ out' = illumfrac_reading(p, dt, phaseangle(p, dt))
    /\ UNCHANGED held

(* 2025-03-24 and 1996-06-22 of test_phase, and 2000-01-01 12:00 *)
PhaseDays ==
    {[s |-> 0, m |-> <<0, 0, 6317, 150>>, e |-> -31],
     [s |-> 0, m |-> <<0, 0, 18081, 149>>, e |-> -31],
     [s |-> 0, m |-> <<0, 0, 20658, 149>>, e |-> -31]}

NextPhase ==
    \/ \E d \in PhaseDays : FromJulian(d)
    \/ \E p \in Bodies : Illumfrac(p)

SpecPhase == Init /\ [][NextPhase]_vars

(* 0.5 * (1 - cos(pa)) in f64, NaN for an Angle that is NaN *)
HalfVersine(pa) ==
    IF IsNaN(pa) THEN NaN ELSE FMul([s |-> 0, m |-> <<0, 0, 0, 128>>, e |-> -53], FSub([s |-> 0, m |-> <<0, 0, 0, 128>>, e |-> -52], cos(pa)))

(* C20: for every planet of PLANETS and every Date d, illumfrac(d) is *)
(* 0.5 * (1 - cos(phaseangle(d)))                                     *)
C20_IllumfracOfPhaseangle ==
    op = "illumfrac" => out.r = HalfVersine(out.pa)


----------------------------------------------------------------------------
(* time.rs and misc.rs: the date of Easter                                 *)

(* `/` and `%` of i32: the quotient truncated towards zero and its remainder; *)
(* no intermediate value of easter leaves the range of i32 for |year| below   *)
(* 2^31 - 1, so the wrapping of i32 plays no part                             *)
i32_div(x, y) == IF x >= 0 THEN x \div y ELSE -((-x) \div y)
i32_rem(x, y) == x - y * i32_div(x, y)

(* time::easter: `2 * b % 4` is (2 * b) % 4 and `2 * c / 4` is (2 * c) / 4, *)
(* `*`, `/` and `%` having one precedence and grouping from the left        *)
time_easter(year) ==
    LET a0 == i32_rem(year, 19)
        b0 == i32_div(year, 100)
        c == i32_rem(year, 100)
        d == i32_div(b0, 4)
        g == i32_div(b0 - i32_div(b0 + 8, 25) + 1, 3)
        h == i32_rem((19 * a0) + b0 - d - g + 15, 30)
        l == i32_rem(32 + i32_rem(2 * b0, 4) + i32_div(2 * c, 4) - h - i32_rem(c, 4), 7)
        m == i32_div(a0 + (11 * h) + (22 * l), 451)
        n0 == i32_div(h + l - (7 * m) + 114, 31)
        p == i32_rem(h + l - (7 * m) + 114, 31)
    IN  <<n0, p + 1>>

(* misc::easter *)
misc_easter(year) ==
    LET a0 == i32_rem(year, 19)
        b0 == i32_div(year, 100)
        c == i32_rem(year, 100)
        d == i32_div(b0, 4)
        e == i32_rem(b0, 4)
        f == i32_div(b0 + 8, 25)
        g == i32_div(b0 - f + 1, 3)
        h == i32_rem((19 * a0) + b0 - d - g + 15, 30)
        i == i32_div(c, 4)
        k == i32_rem(c, 4)
        l == i32_rem(32 + (2 * e) + (2 * i) - h - k, 7)
        m == i32_div(a0 + (11 * h) + (22 * l), 451)
        n0 == i32_div(h + l - (7 * m) + 114, 31)
        p == i32_rem(h + l - (7 * m) + 114, 31)
    IN  <<n0, p + 1>>

TimeEaster(year) ==
    /\ op' = "time::easter"
    /\ out' = [year |-> year, r |-> time_easter(year)]
    /\ UNCHANGED held

MiscEaster(year) ==
    /\ op' = "misc::easter"
    /\ out' = [year |-> year, r |-> misc_easter(year)]
    /\ UNCHANGED held

(* years of the Gregorian era given to easter, the 2000 and 2024 of test_easter among them *)
EasterYears == 1900..2100

NextEaster ==
    \/ \E year \in EasterYears : TimeEaster(year)
    \/ \E year \in EasterYears : MiscEaster(year)

SpecEaster == Init /\ [][NextEaster]_vars

(* March 22 .. April 25 *)
InEasterRange(r) == (r[1] = 3 /\ r[2] \in 22..31) \/ (r[1] = 4 /\ r[2] \in 1..25)

(* the day of the week of the calendar date (year, month, day) at 0h, from *)
(* its Julian day number x.5: (x.5 + 1.5) mod 7 is 0 on a Sunday           *)
Weekday(year, month, day) ==
    FToInt(FAdd(julian(from_calendar(year, month, day, Zero)), Dy(3, 1))) % 7

(* C25: time::easter(year) is the date of Easter Sunday of the Gregorian   *)
(* calendar: (4, 23) for 2000 and (3, 31) for 2024, always a Sunday, and   *)
(* always between March 22 and April 25                                    *)
C25_EasterSunday ==
    op = "time::easter" =>
        /\ out.year = 2000 => out.r = <<4, 23>>
        /\ out.year = 2024 => out.r = <<3, 31>>
        /\ InEasterRange(out.r)
        /\ Weekday(out.year, out.r[1], out.r[2]) = 0

(* C27: time::easter and misc::easter return the same (month, day) for the *)
(* same year                                                               *)
C27_EastersAgree ==
    /\ op = "time::easter" => out.r = misc_easter(out.year)
    /\ op = "misc::easter" => out.r = time_easter(out.year)

(* misc::easter returns a Sunday between March 22 and April 25 for every year given *)
MiscEasterSunday ==
    op = "misc::easter" =>
        InEasterRange(out.r) /\ Weekday(out.year, out.r[1], out.r[2]) = 0


----------------------------------------------------------------------------
(* time.rs: from_calendar with the months 13 and 14                        *)

(* (y, day) of the calls: the (1000, 14, 20) of test_calendar, the winter  *)
(* before the calendar switch, a leap day and the year before year 0       *)
RolloverGrid == {<<1000, 20>>, <<1581, 28>>, <<1999, 29>>, <<-1, 1>>}

(* 0h (Angle::default()) and 12h30 *)
RolloverTimes == {Zero, from_clock(12, 30, Zero)}

NextRollover ==
    \/ \E c \in RolloverGrid : \E m \in {1, 2} : \E t \in RolloverTimes :
          FromCalendar(c[1], m + 12, c[2], t)
    \/ \E c \in RolloverGrid : \E m \in {1, 2} : \E t \in RolloverTimes :
          FromCalendar(c[1] + 1, m, c[2], t)
    \/ Calendar

SpecRollover == Init /\ [][NextRollover]_vars

(* the Date was made by from_calendar with month 13 or 14 *)
RolledOver == arg.f = "from_calendar" /\ ~arg.reading /\ arg.m \in {13, 14}

(* from_calendar(y, m + 12, day, t) is the Date of from_calendar(y + 1, m, day, t) *)
RolloverSameDate == RolledOver => dt = from_calendar(arg.y + 1, arg.m - 12, arg.d, arg.t)

(* calendar() of it reports the year, month and day of the following year *)
RolloverSameDay ==
    RolledOver /\ op = "calendar" =>
        out[1] = arg.y + 1 /\ out[2] = arg.m - 12 /\ out[3] = arg.d

(* C24: from_calendar(y, m + 12, day, t) for m in {1, 2} equals            *)
(* from_calendar(y + 1, m, day, t), and calendar() of the result is        *)
(* (y + 1, m, day, t), the times compared as Angles                        *)
C24_MonthRollover ==
    /\ RolloverSameDate
    /\ RolloverSameDay
    /\ RolledOver /\ op = "calendar" => eq(out[4], arg.t)


----------------------------------------------------------------------------
(* time.rs: the ranges of what clock(), degminsec() and calendar() return  *)

(* radians: 0, 1, 4, pi, the two f64 values 6.283185307179585 and          *)
(* 6.283185307179579 just below 2 pi, and -2^-70, which from_radians       *)
(* brings to 2 pi itself                                                   *)
RangeRads ==
    {Zero, [s |-> 0, m |-> <<0, 0, 0, 128>>, e |-> -52], [s |-> 0, m |-> <<0, 0, 0, 128>>, e |-> -50], PI,
     [s |-> 0, m |-> <<11543, 10376, 2029, 201>>, e |-> -50],
     [s |-> 0, m |-> <<11536, 10376, 2029, 201>>, e |-> -50],
     FNeg(Tiny)}

(* Julian days: 0.0, 59.5, 2299160.5, 2451545.0, and the last f64 values   *)
(* before a midnight, 30.5 - 2^-48, 59.5 - 2^-47 and 2451544.5 - 2^-31     *)
RangeDays ==
    {Zero, [s |-> 0, m |-> <<0, 0, 0, 238>>, e |-> -47],
     [s |-> 0, m |-> <<0, 0, 10801, 140>>, e |-> -31],
     [s |-> 0, m |-> <<0, 0, 20658, 149>>, e |-> -31],
     [s |-> 0, m |-> <<32767, 32767, 32767, 243>>, e |-> -48],
     [s |-> 0, m |-> <<32767, 32767, 32767, 237>>, e |-> -47],
     [s |-> 0, m |-> <<32767, 32767, 20656, 149>>, e |-> -31]}

NextRange ==
    \/ \E x \in RangeRads : FromRadians(x)
    \/ FromClock(23, 59, Dy(119, 1))
    \/ FromDegminsec(359, 59, Dy(119, 1))
    \/ \E x \in RangeDays : FromJulian(x)
    \/ Clock
    \/ Degminsec
    \/ Calendar

SpecRange == Init /\ [][NextRange]_vars

(* radians in [0, 2 pi) *)
Normalized(x) == FGe(radians(x), Zero) /\ FLt(radians(x), TAU)

(* the sexagesimal triple r has its first part in 0..top, which is also the *)
(* truncated value whole before the cast, its minutes in 0..59 and its      *)
(* seconds in [0, 60)                                                       *)
SexagesimalInRange(r, whole, top) ==
    /\ r[1] \in 0..top /\ r[1] = FToInt(FTrunc(whole))
    /\ r[2] \in 0..59
    /\ FGe(r[3], Zero) /\ FLt(r[3], Sixty)

ClockInRange == op = "clock" /\ Normalized(a) => SexagesimalInRange(out, decimal(a), 23)

DegminsecInRange == op = "degminsec" /\ Normalized(a) => SexagesimalInRange(out, degrees(a), 359)

CalendarInRange ==
    op = "calendar" /\ FGe(julian(dt), Zero) => out[2] \in 1..12 /\ out[3] \in 1..31

(* C28: for an Angle with radians in [0, 2 pi), clock() has its hour in    *)
(* 0..23 and degminsec() its degree in 0..359, both the minute in 0..59    *)
(* and the second in [0, 60), no cast saturating; calendar() of a Date     *)
(* with a Julian day >= 0 has its month in 1..12 and its day in 1..31      *)
C28_ComponentsInRange == ClockInRange /\ DegminsecInRange /\ CalendarInRange


----------------------------------------------------------------------------
(* coord.rs: precession                                                    *)

(* (d.julian() - epoch.julian()) / 365.25 *)
precess_diff(epoch, d) == FDiv(FSub(julian(d), julian(epoch)), Dy(1461, 2))

(* m = from_clock(0, 0, 3.07234) + from_clock(0, 0, 0.00186) * epoch.centuries() *)
precess_m(epoch) ==
    add(from_clock(0, 0, [s |-> 0, m |-> <<2695, 31971, 20635, 196>>, e |-> -51]),
        mul(from_clock(0, 0, [s |-> 0, m |-> <<29822, 5588, 26015, 243>>, e |-> -62]), centuries(epoch)))

(* n = from_degminsec(0, 0, 20.0468) + from_degminsec(0, 0, 0.0085) * epoch.centuries() *)
precess_n(epoch) ==
    add(from_degminsec(0, 0, [s |-> 0, m |-> <<29675, 11114, 12268, 160>>, e |-> -48]),
        mul(from_degminsec(0, 0, [s |-> 0, m |-> <<17564, 24641, 8650, 139>>, e |-> -59]), centuries(epoch)))

(* m.degrees() + n.degrees() * ra.sin() * de.tan() *)
precess_deltara(ra, de, m, n0) ==
    CASE IsF64(m) /\ IsF64(n0) -> FAdd(degrees(m), FMul(FMul(degrees(n0), sin(ra)), tan(de)))

(* n.degrees() * ra.cos() *)
precess_deltade(ra, n0) == CASE IsF64(n0) -> FMul(degrees(n0), cos(ra))

(* the shifts added without the factor diff *)
precess_unscaled(c, deltara, deltade, diff) ==
    from_equatorial(add(c[1], from_degrees(deltara)), add(c[2], from_degrees(deltade)))

(* from_equatorial(ra + from_degrees(deltara * diff), de + from_degrees(deltade * diff)) *)
precess_by(c, deltara, deltade, diff) ==
    from_equatorial(add(c[1], from_degrees(FMul(deltara, diff))),
                    add(c[2], from_degrees(FMul(deltade, diff))))

(* what c.precess(epoch, d) computes: its deltara, deltade and diff, and the Coord r returned *)
precess_with(c, epoch, d, deltara, deltade, diff) ==
    CASE IsF64(deltara) /\ IsF64(deltade) /\ IsF64(diff) ->
        [c |-> c, epoch |-> epoch, d |-> d, deltara |-> deltara, deltade |-> deltade,
         diff |-> diff, r |-> precess_by(c, deltara, deltade, diff)]

precess_of(c, epoch, d, m, n0) ==
    precess_with(c, epoch, d,
                 precess_deltara(equatorial(c)[1], equatorial(c)[2], m, n0),
                 precess_deltade(equatorial(c)[1], n0),
                 precess_diff(epoch, d))

precess(c, epoch, d) == precess_of(c, epoch, d, precess_m(epoch), precess_n(epoch)).r

(* c.precess(epoch, d) of the Coord just made by from_equatorial *)
Precess(epoch, d) ==
    /\ op = "from_equatorial"
    /\ op' = "precess"
    /\ out' = precess_of(from_equatorial(a, b), epoch, d, precess_m(epoch), precess_n(epoch))
    /\ UNCHANGED held

(* epochs: Julian days 2433282.5 (1950) and 2451545.0 (2000) *)
PrecessEpochs ==
    {[s |-> 0, m |-> <<0, 0, 16901, 148>>, e |-> -31], [s |-> 0, m |-> <<0, 0, 20658, 149>>, e |-> -31]}

(* the epochs themselves, 2451910.25 (2000 plus 365.25 days) and 2415020.0 (1900) *)
PrecessDays ==
    PrecessEpochs \cup
    {[s |-> 0, m |-> <<0, 16384, 21388, 149>>, e |-> -31], [s |-> 0, m |-> <<0, 0, 13144, 147>>, e |-> -31]}

NextPrecess ==
    \/ \E c \in EclStars : FromEquatorial(c[1], c[2])
    \/ \E epoch \in PrecessEpochs : \E d \in PrecessDays : Precess(epoch, d)

SpecPrecess == Init /\ [][NextPrecess]_vars

(* the shift of component i, r minus c, in degrees within (-180, 180] *)
PrecessShift(i) == degrees(to_latitude(sub(out.r[i], out.c[i])))

----------------------------------------------------------------------------
(* sol.rs: the Sun                                                         *)

(* sol::sun::distance: (tx * tx + ty * ty + tz * tz).sqrt() of locationcart(d) *)
sun_distance(d) == norm(sun_locationcart(d))

(* sun::locationcart(d) for the Date just made *)
SunLocationcart ==
    /\ op = "from_julian"
    /\ op' = "sun::locationcart"
    /\ out' = [d |-> dt, r |-> sun_locationcart(dt)]
    /\ UNCHANGED held

(* sun::distance(d) for the Date just made *)
SunDistance ==
    /\ op = "from_julian"
    /\ op' = "sun::distance"
    /\ out' = [d |-> dt, r |-> sun_distance(dt)]
    /\ UNCHANGED held

(* 2000-01-01 12:00, the instant of test_planet, 2025-03-24 and 1996-06-22 *)
(* of test_phase, the instants of test_sunpos (2268932.541667) and         *)
(* test_lambdasun (1980-07-27), and Julian day 2460000.5                   *)
SunDays ==
    {[s |-> 0, m |-> <<0, 0, 20658, 149>>, e |-> -31],
     [s |-> 0, m |-> <<18958, 27440, 6296, 150>>, e |-> -31],
     [s |-> 0, m |-> <<0, 0, 6317, 150>>, e |-> -31],
     [s |-> 0, m |-> <<0, 0, 18081, 149>>, e |-> -31],
     [s |-> 0, m |-> <<22561, 2730, 15881, 138>>, e |-> -31],
     [s |-> 0, m |-> <<0, 0, 6463, 149>>, e |-> -31],
     [s |-> 0, m |-> <<0, 0, 4801, 150>>, e |-> -31]}

NextSun ==
    \/ \E d \in SunDays : FromJulian(d)
    \/ SunLocationcart
    \/ SunDistance

SpecSun == Init /\ [][NextSun]_vars

(* (-v.0, -v.1, -v.2) *)
negated(v) == CASE IsF64(v[1]) -> <<FNeg(v[1]), FNeg(v[2]), FNeg(v[3])>>

(* C21: sun::locationcart(d) is the component-wise negation of             *)
(* EARTH.locationcart(d), and sun::distance(d) is the norm of that vector  *)
C21_SunIsNegatedEarth ==
    /\ op = "sun::locationcart" => out.r = negated(locationcart(EARTH, out.d))
    /\ op = "sun::distance" => out.r = norm(negated(locationcart(EARTH, out.d)))

(* every component of v and w within 0.0001 *)
NearVector(v, w) ==
    \A k \in 1..3 : FLt(FAbs(FSub(v[k], w[k])), [s |-> 0, m |-> <<17197, 22072, 23435, 209>>, e |-> -66])

(* the two vectors agree to 0.0001 AU, and sun::distance is the norm of sun::locationcart *)
SunNearNegatedEarth ==
    /\ op = "sun::locationcart" => NearVector(out.r, negated(locationcart(EARTH, out.d)))
    /\ op = "sun::distance" => out.r = norm(sun_locationcart(out.d))


----------------------------------------------------------------------------
(* sol.rs: angular diameter, phase angle and magnitude                     *)

(* f64 infinities: the quotient x / 0.0 of a nonzero x, and log10 of 0.0 *)
Inf == [s |-> 0, m |-> <<>>, e |-> 1025]
NegInf == [s |-> 1, m |-> <<>>, e |-> 1025]
IsInf(x) == x.e = 1025

(* x / y of two finite non-negative f64, y possibly 0.0: 0.0 / 0.0 is NaN *)
f64_div(x, y) ==
    CASE IsF64(x) /\ IsF64(y) ->
        IF IsNaN(x) \/ IsNaN(y) THEN NaN
        ELSE IF IsZero(y) THEN (IF IsZero(x) THEN NaN ELSE Inf)
        ELSE FDiv(x, y)

(* Angle::from_degrees of a quotient: x % TAU is NaN for an infinite x *)
angdia_of(q) == IF IsNaN(q) \/ IsInf(q) THEN NaN ELSE from_degrees(q)

(* q.log10() of q >= 0 *)
log10_of(q) ==
    CASE IsF64(q) ->
        IF IsNaN(q) \/ IsInf(q) THEN q
        ELSE IF IsZero(q) THEN NegInf
        ELSE f64_log10(q)

(* 5.0 * l + v0 *)
magnitude_sum(l, v0) ==
    CASE IsF64(l) ->
        IF IsNaN(l) \/ IsInf(l) THEN l
        ELSE FAdd(FMul([s |-> 0, m |-> <<0, 0, 0, 160>>, e |-> -50], l), v0)

(* 5.0 * ((au * sd) / frac.sqrt()).log10() + v0, au being self.distance(d) *)
magnitude_of(au, sd, frac, v0) ==
    CASE IsF64(au) /\ IsF64(sd) /\ IsF64(frac) ->
        IF IsNaN(frac) THEN NaN
        ELSE magnitude_sum(log10_of(f64_div(FMul(au, sd), f64_sqrt(frac))), v0)

(* what the queries of p at d start from: self.locationcart(d),            *)
(* EARTH.locationcart(d) and sun::location(d), with the planet's constants *)
planet_vectors(p, d) ==
    [p |-> p.number, theta0 |-> p.theta0, v0 |-> p.v0, d |-> d,
     c |-> locationcart(p, d), e0 |-> locationcart(EARTH, d), sun |-> sun_location(d)]

(* the vector from the Earth to the planet, none for the Earth *)
vectors_apart(w) == IF w.p = 2 THEN None ELSE minus(w.c, w.e0)

(* Planet::angdia: from_degrees(self.theta0 / self.distance(d)) *)
angdia_from(w) == angdia_of(f64_div(w.theta0, distance_of(vectors_apart(w))))

angdia(p, d) == angdia_from(planet_vectors(p, d))

(* Planet::sun_distance *)
sun_distance_from(w) == norm(w.c)

(* Planet::phaseangle *)
phaseangle_from(w) ==
    phaseangle_of(dist(w.sun, location_of(vectors_apart(w))), sun_distance_from(w))

(* Planet::illumfrac *)
illumfrac_from(w) == illumfrac_angle(w.p, phaseangle_from(w))

(* Planet::magnitude *)
magnitude_from(w) ==
    magnitude_of(distance_of(vectors_apart(w)), sun_distance_from(w), illumfrac_from(w), w.v0)

magnitude(p, d) == magnitude_from(planet_vectors(p, d))

(* a query of planet p for the Date just made starts: the vectors it computes from *)
PlanetVectors(p) ==
    /\ op = "from_julian"
    /\ op' = "vectors"
    /\ out' = planet_vectors(p, dt)
    /\ UNCHANGED held

(* the query is angdia, phaseangle, illumfrac or magnitude, and returns *)
Angdia ==
    /\ op = "vectors"
    /\ op' = "angdia"
    /\ out' = [p |-> out.p, d |-> out.d, r |-> angdia_from(out)]
    /\ UNCHANGED held

Phaseangle ==
    /\ op = "vectors"
    /\ op' = "phaseangle"
    /\ out' = [p |-> out.p, d |-> out.d, r |-> phaseangle_from(out)]
    /\ UNCHANGED held

IllumfracOf ==
    /\ op = "vectors"
    /\ op' = "illumfrac"
    /\ out' = [p |-> out.p, d |-> out.d, r |-> illumfrac_from(out)]
    /\ UNCHANGED held

Magnitude ==
    /\ op = "vectors"
    /\ op' = "magnitude"
    /\ out' = [p |-> out.p, d |-> out.d, r |-> magnitude_from(out)]
    /\ UNCHANGED held

(* 2000-01-01 12:00, the instant of test_planet, 2025-03-24 and 1996-06-22 of test_phase *)
EarthDays ==
    {[s |-> 0, m |-> <<0, 0, 20658, 149>>, e |-> -31],
     [s |-> 0, m |-> <<18958, 27440, 6296, 150>>, e |-> -31],
     [s |-> 0, m |-> <<0, 0, 6317, 150>>, e |-> -31],
     [s |-> 0, m |-> <<0, 0, 18081, 149>>, e |-> -31]}

EarthAndMars == {EARTH, MARS}

NextEarth ==
    \/ \E d \in EarthDays : FromJulian(d)
    \/ \E p \in EarthAndMars : PlanetVectors(p)
    \/ Angdia
    \/ Phaseangle
    \/ IllumfracOf
    \/ Magnitude

SpecEarth == Init /\ [][NextEarth]_vars

(* a number: neither NaN nor infinite *)
Finite(x) == ~IsNaN(x) /\ ~IsInf(x)

(* C26: EARTH.angdia(d), EARTH.phaseangle(d), EARTH.illumfrac(d) and       *)
(* EARTH.magnitude(d) are numbers, never NaN and never infinite            *)
C26_EarthQueriesFinite ==
    op \in {"angdia", "phaseangle", "illumfrac", "magnitude"} /\ out.p = EARTH.number =>
        Finite(out.r)

(* the same readings of Mars are numbers *)
MarsQueriesFinite ==
    op \in {"angdia", "phaseangle", "illumfrac", "magnitude"} /\ out.p = MARS.number =>
        Finite(out.r)

(* ---- moon.rs ---- *)

(* const MOON: Moon; i, theta0 and pi0 are Angles, from_degrees of 5.145396, *)
(* 0.0013312900722 and 0.0024428825934                                       *)
MOON ==
    [epoch |-> [s |-> 0, m |-> <<0, 0, 6045, 149>>, e |-> -31],
     l0 |-> [s |-> 0, m |-> <<6969, 285, 31160, 129>>, e |-> -46],
     n0 |-> [s |-> 0, m |-> <<1393, 21544, 31143, 151>>, e |-> -45],
     i |-> [s |-> 0, m |-> <<3777, 7716, 30107, 183>>, e |-> -56],
     e |-> [s |-> 0, m |-> <<19975, 8755, 28521, 224>>, e |-> -57],
     a |-> [s |-> 0, m |-> <<21190, 12370, 13068, 168>>, e |-> -61],
     theta0 |-> [s |-> 0, m |-> <<2118, 24931, 29904, 194>>, e |-> -68],
     pi0 |-> [s |-> 0, m |-> <<26732, 18585, 27190, 178>>, e |-> -67]]

(* sol::SUN.location(d): the Sun as the negated vector of the Earth *)
SUN_location(d) == sun_location_of(negated(locationcart(EARTH, d)))

(* d.julian() - self.epoch *)
moon_day(s, d) == FSub(julian(d), s.epoch)

(* sol::SUN.location(d).ecliptic(d).0 *)
moon_lambdasun_of(c, d) == CASE IsF64(c[1]) /\ IsF64(c[2]) -> ecliptic(c, d)[1]

moon_lambdasun(d) == moon_lambdasun_of(SUN_location(d), d)

(* from_degrees(((360.0 / 365.2422) * day) + 278.833540 - 282.596403) *)
moon_m(day) ==
    from_degrees(FSub(FAdd(FMul([s |-> 0, m |-> <<10938, 3120, 10673, 252>>, e |-> -53], day),
                           [s |-> 0, m |-> <<32391, 23571, 13656, 139>>, e |-> -44]),
                      [s |-> 0, m |-> <<17352, 15294, 9771, 141>>, e |-> -44]))

(* from_degrees(13.1763966 * day + self.l0) *)
moon_ml(s, day) == from_degrees(FAdd(FMul([s |-> 0, m |-> <<16462, 20336, 26946, 210>>, e |-> -49], day), s.l0))

(* from_degrees(ml.degrees() - 0.1114041 * day - 349.383063) *)
moon_mm(ml, day) ==
    from_degrees(FSub(FSub(degrees(ml), FMul([s |-> 0, m |-> <<27544, 19527, 5098, 228>>, e |-> -56], day)),
                      [s |-> 0, m |-> <<5356, 3414, 22660, 174>>, e |-> -44]))

(* 1.2739 * ((ml - lambdasun) * 2.0 - mm).sin() *)
moon_ev(ml, lambdasun, mm) ==
    FMul([s |-> 0, m |-> <<32139, 28363, 1939, 163>>, e |-> -52],
         sin(sub(mul(sub(ml, lambdasun), [s |-> 0, m |-> <<0, 0, 0, 128>>, e |-> -51]), mm)))

(* 0.1858 * m.sin() *)
moon_ae(m0) == FMul([s |-> 0, m |-> <<25585, 15256, 8493, 190>>, e |-> -55], sin(m0))

(* from_degrees(mm.degrees() + ev - ae - (0.37 * m.sin())) *)
moon_mmp(mm, ev, ae, m0) ==
    from_degrees(FSub(FSub(FAdd(degrees(mm), ev), ae),
                      FMul([s |-> 0, m |-> <<18350, 30146, 14417, 189>>, e |-> -54], sin(m0))))

(* from_degrees(6.2886 * mmp.sin()) *)
moon_mec(mmp) == from_degrees(FMul([s |-> 0, m |-> <<157, 1101, 7707, 201>>, e |-> -50], sin(mmp)))

(* from_degrees(ml.degrees() + ev + (6.2886 * mmp.sin()) - ae + (0.214 * (mmp * 2.0).sin())) *)
moon_lp(ml, ev, mmp, ae) ==
    from_degrees(
        FAdd(FSub(FAdd(FAdd(degrees(ml), ev),
                       FMul([s |-> 0, m |-> <<157, 1101, 7707, 201>>, e |-> -50], sin(mmp))),
                  ae),
             FMul([s |-> 0, m |-> <<2097, 14680, 4456, 219>>, e |-> -55],
                  sin(mul(mmp, [s |-> 0, m |-> <<0, 0, 0, 128>>, e |-> -51])))))

(* from_degrees(lp.degrees() + (1.3166 * (lp - lambdasun).sin())) *)
moon_lpp(lp, lambdasun) ==
    from_degrees(FAdd(degrees(lp),
                      FMul([s |-> 0, m |-> <<7707, 21181, 17196, 168>>, e |-> -52], sin(sub(lp, lambdasun)))))

(* from_degrees(from_degrees(self.n0 - 0.0529539 * day).degrees() - 0.16 * m.sin()) *)
moon_np(s, day, m0) ==
    from_degrees(
        FSub(degrees(from_degrees(FSub(s.n0, FMul([s |-> 0, m |-> <<11472, 4808, 29464, 216>>, e |-> -57], day)))),
             FMul([s |-> 0, m |-> <<5243, 3932, 27525, 163>>, e |-> -55], sin(m0))))

(* from_radians(((lpp - np).sin() * self.i.cos()).atan2((lpp - np).cos())) + np *)
moon_lambdamoon(s, ln, np) ==
    CASE IsF64(ln) /\ IsF64(np) -> add(atan2_of(FMul(sin(ln), cos(s.i)), cos(ln)), np)

(* Angle::asin((lpp - np).sin() * self.i.sin()) *)
moon_betamoon(s, ln) == CASE IsF64(ln) -> asin_of(FMul(sin(ln), sin(s.i)))

(* (self.a * (1.0 - self.e * self.e)) / (1.0 + self.e * (mmp + mec).cos()) *)
moon_dist(s, mmp, mec) ==
    CASE IsF64(mmp) /\ IsF64(mec) ->
        FDiv(FMul(s.a, FSub([s |-> 0, m |-> <<0, 0, 0, 128>>, e |-> -52], FMul(s.e, s.e))),
             FAdd([s |-> 0, m |-> <<0, 0, 0, 128>>, e |-> -52], FMul(s.e, cos(add(mmp, mec)))))

(* the tuple returned: (lpp - lambdasun, from_ecliptic(lambdamoon, betamoon, d), dist) *)
mooninfo_coord(d, age, lambdamoon, betamoon, au) ==
    CASE IsF64(age) /\ IsF64(lambdamoon) /\ IsF64(betamoon) /\ IsF64(au) ->
        <<age, from_ecliptic(lambdamoon, betamoon, d), au>>

(* from lpp and np on *)
mooninfo_tuple(s, d, lambdasun, mmp, lpp, np) ==
    CASE IsF64(lpp) /\ IsF64(np) ->
        mooninfo_coord(d, sub(lpp, lambdasun),
                       moon_lambdamoon(s, sub(lpp, np), np), moon_betamoon(s, sub(lpp, np)),
                       moon_dist(s, mmp, moon_mec(mmp)))

(* from lp on *)
mooninfo_lp(s, d, day, lambdasun, m0, mmp, lp) ==
    CASE IsF64(lp) ->
        mooninfo_tuple(s, d, lambdasun, mmp, moon_lpp(lp, lambdasun), moon_np(s, day, m0))

(* from mmp on *)
mooninfo_mmp(s, d, day, lambdasun, m0, ml, ev, ae, mmp) ==
    CASE IsF64(mmp) ->
        mooninfo_lp(s, d, day, lambdasun, m0, mmp, moon_lp(ml, ev, mmp, ae))

(* from ev and ae on *)
mooninfo_ev(s, d, day, lambdasun, m0, ml, mm, ev, ae) ==
    CASE IsF64(ev) /\ IsF64(ae) ->
        mooninfo_mmp(s, d, day, lambdasun, m0, ml, ev, ae, moon_mmp(mm, ev, ae, m0))

(* from mm on *)
mooninfo_mm(s, d, day, lambdasun, m0, ml, mm) ==
    CASE IsF64(mm) ->
        mooninfo_ev(s, d, day, lambdasun, m0, ml, mm, moon_ev(ml, lambdasun, mm), moon_ae(m0))

(* from m and ml on *)
mooninfo_ml(s, d, day, lambdasun, m0, ml) ==
    CASE IsF64(m0) /\ IsF64(ml) ->
        mooninfo_mm(s, d, day, lambdasun, m0, ml, moon_mm(ml, day))

(* from day and lambdasun on *)
mooninfo_day(s, d, day, lambdasun) ==
    CASE IsF64(day) /\ IsF64(lambdasun) ->
        mooninfo_ml(s, d, day, lambdasun, moon_m(day), moon_ml(s, day))

(* Moon::mooninfo *)
mooninfo(s, d) == mooninfo_day(s, d, moon_day(s, d), moon_lambdasun(d))

(* 29.53058868 * .0.radians() *)
moon_phaseage_radians(info) == FMul([s |-> 0, m |-> <<14930, 20936, 8018, 236>>, e |-> -48], radians(info[1]))

(* Moon::phaseage of the tuple of mooninfo: 29.53058868 * .0.turns() *)
moon_phaseage_of(info) == FMul([s |-> 0, m |-> <<14930, 20936, 8018, 236>>, e |-> -48], turns(info[1]))

moon_phaseage(s, d) == moon_phaseage_of(mooninfo(s, d))

(* Moon::illumfrac: (1.0 - .0.cos()) / 2.0 *)
moon_illumfrac_of(info) ==
    FDiv(FSub([s |-> 0, m |-> <<0, 0, 0, 128>>, e |-> -52], cos(info[1])), [s |-> 0, m |-> <<0, 0, 0, 128>>, e |-> -51])

moon_illumfrac(s, d) == moon_illumfrac_of(mooninfo(s, d))

(* Moon::phaseangle *)
moon_phaseangle_of(info) == info[1]

moon_phaseangle(s, d) == moon_phaseangle_of(mooninfo(s, d))

(* Moon::location *)
moon_location_of(info) == info[2]

moon_location(s, d) == moon_location_of(mooninfo(s, d))

(* Moon::distance *)
moon_distance_of(info) == info[3]

moon_distance(s, d) == moon_distance_of(mooninfo(s, d))

(* Moon::angdia: self.theta0 / self.distance(d), the Div<f64> of Angle *)
moon_angdia_of(s, info) == div(s.theta0, moon_distance_of(info))

moon_angdia(s, d) == moon_angdia_of(s, mooninfo(s, d))

(* Moon::parallax: self.pi0 / self.distance(d) *)
moon_parallax_of(s, info) == div(s.pi0, moon_distance_of(info))

moon_parallax(s, d) == moon_parallax_of(s, mooninfo(s, d))

(* Moon::magnitude: 5.0 * (self.distance(d) / self.illumfrac(d).sqrt()).log10() + 0.21 *)
moon_magnitude_of(info) ==
    FAdd(FMul([s |-> 0, m |-> <<0, 0, 0, 160>>, e |-> -50],
              log10_of(f64_div(moon_distance_of(info), f64_sqrt(moon_illumfrac_of(info))))),
         [s |-> 0, m |-> <<31457, 23592, 1310, 215>>, e |-> -55])

moon_magnitude(s, d) == moon_magnitude_of(mooninfo(s, d))

(* a query of the Moon for the Date just made starts: the one mooninfo(d) it derives from *)
MoonInfo ==
    /\ op = "from_julian"
    /\ op' = "mooninfo"
    /\ out' = [d |-> dt, info |-> mooninfo(MOON, dt)]
    /\ UNCHANGED held

(* the query returns its reading r of that tuple *)
MoonPhaseage ==
    /\ op = "mooninfo"
    /\ op' = "Moon::phaseage"
    /\ out' = [d |-> out.d, info |-> out.info, r |-> moon_phaseage_of(out.info)]
    /\ UNCHANGED held

MoonIllumfrac ==
    /\ op = "mooninfo"
    /\ op' = "Moon::illumfrac"
    /\ out' = [d |-> out.d, info |-> out.info, r |-> moon_illumfrac_of(out.info)]
    /\ UNCHANGED held

MoonPhaseangle ==
    /\ op = "mooninfo"
    /\ op' = "Moon::phaseangle"
    /\ out' = [d |-> out.d, info |-> out.info, r |-> moon_phaseangle_of(out.info)]
    /\ UNCHANGED held

MoonLocation ==
    /\ op = "mooninfo"
    /\ op' = "Moon::location"
    /\ out' = [d |-> out.d, info |-> out.info, r |-> moon_location_of(out.info)]
    /\ UNCHANGED held

MoonDistance ==
    /\ op = "mooninfo"
    /\ op' = "Moon::distance"
    /\ out' = [d |-> out.d, info |-> out.info, r |-> moon_distance_of(out.info)]
    /\ UNCHANGED held

MoonAngdia ==
    /\ op = "mooninfo"
    /\ op' = "Moon::angdia"
    /\ out' = [d |-> out.d, info |-> out.info, r |-> moon_angdia_of(MOON, out.info)]
    /\ UNCHANGED held

MoonParallax ==
    /\ op = "mooninfo"
    /\ op' = "Moon::parallax"
    /\ out' = [d |-> out.d, info |-> out.info, r |-> moon_parallax_of(MOON, out.info)]
    /\ UNCHANGED held

MoonMagnitude ==
    /\ op = "mooninfo"
    /\ op' = "Moon::magnitude"
    /\ out' = [d |-> out.d, info |-> out.info, r |-> moon_magnitude_of(out.info)]
    /\ UNCHANGED held

(* the instants of test_moonphase, test_moondist and test_moonlocation *)
MoonDays ==
    {[s |-> 0, m |-> <<0, 0, 6327, 150>>, e |-> -31],
     [s |-> 0, m |-> <<0, 0, 6349, 150>>, e |-> -31],
     [s |-> 0, m |-> <<0, 0, 6139, 150>>, e |-> -31],
     [s |-> 0, m |-> <<29530, 30663, 6296, 150>>, e |-> -31],
     [s |-> 0, m |-> <<12140, 3595, 6297, 150>>, e |-> -31]}

NextMoon ==
    \/ \E d \in MoonDays : FromJulian(d)
    \/ MoonInfo
    \/ MoonPhaseage
    \/ MoonIllumfrac
    \/ MoonPhaseangle
    \/ MoonLocation
    \/ MoonDistance
    \/ MoonAngdia
    \/ MoonParallax
    \/ MoonMagnitude

SpecMoon == Init /\ [][NextMoon]_vars

MoonQuery(name) == op = name /\ out.d = dt

(* C22: every property of the Moon is read off the one mooninfo(d) of the   *)
(* same Date: phaseangle is the age, illumfrac is (1 - cos(age)) / 2,       *)
(* phaseage is 29.53058868 * age in turns and lies in [0, 29.53058868),     *)
(* distance is the third component, angdia is theta0 / distance, parallax   *)
(* is pi0 / distance, magnitude is 5 * log10(distance / sqrt(illumfrac))    *)
(* + 0.21                                                                   *)
C22_MoonDerivations ==
    /\ MoonQuery("Moon::phaseangle") => out.r = out.info[1]
    /\ MoonQuery("Moon::illumfrac") =>
           out.r = FDiv(FSub([s |-> 0, m |-> <<0, 0, 0, 128>>, e |-> -52], f64_cos(out.info[1])), [s |-> 0, m |-> <<0, 0, 0, 128>>, e |-> -51])
    /\ MoonQuery("Moon::phaseage") =>
           /\ out.r = FMul([s |-> 0, m |-> <<14930, 20936, 8018, 236>>, e |-> -48], FDiv(out.info[1], TAU))
           /\ FGe(out.r, Zero)
           /\ FLt(out.r, [s |-> 0, m |-> <<14930, 20936, 8018, 236>>, e |-> -48])
    /\ MoonQuery("Moon::distance") => out.r = out.info[3]
    /\ MoonQuery("Moon::angdia") => out.r = from_radians(FDiv(MOON.theta0, out.info[3]))
    /\ MoonQuery("Moon::parallax") => out.r = from_radians(FDiv(MOON.pi0, out.info[3]))
    /\ MoonQuery("Moon::magnitude") =>
           out.r = FAdd(FMul([s |-> 0, m |-> <<0, 0, 0, 160>>, e |-> -50],
                             f64_log10(FDiv(out.info[3],
                                 f64_sqrt(FDiv(FSub([s |-> 0, m |-> <<0, 0, 0, 128>>, e |-> -52], f64_cos(out.info[1])), [s |-> 0, m |-> <<0, 0, 0, 128>>, e |-> -51]))))),
                        [s |-> 0, m |-> <<31457, 23592, 1310, 215>>, e |-> -55])

(* MOON.magnitude of 2024-12-25 is the -11.366493493867907 of test_moonphase, *)
(* MOON.distance of Julian day 2460748.467894 the 0.0026765709280575905 of    *)
(* test_moondist                                                              *)
C22_Witness ==
    \/ /\ MoonQuery("Moon::magnitude")
       /\ out.d = from_julian([s |-> 0, m |-> <<0, 0, 6139, 150>>, e |-> -31])
       /\ out.r = [s |-> 1, m |-> <<14344, 4617, 28308, 181>>, e |-> -49]
    \/ /\ MoonQuery("Moon::distance")
       /\ out.d = from_julian([s |-> 0, m |-> <<29530, 30663, 6296, 150>>, e |-> -31])
       /\ out.r = [s |-> 0, m |-> <<28092, 9853, 13492, 175>>, e |-> -61]

(* ---- the illuminated fraction of the planets and of the Moon ---- *)

(* 2025-01-12, with Venus near half phase, and the 2025-03-24 of test_phase *)
IllumDays ==
    {[s |-> 0, m |-> <<0, 0, 6175, 150>>, e |-> -31],
     [s |-> 0, m |-> <<0, 0, 6317, 150>>, e |-> -31]}

NextIllum ==
    \/ \E d \in IllumDays : FromJulian(d)
    \/ \E p \in Bodies \ {EARTH} : PlanetVectors(p)
    \/ IllumfracOf
    \/ MoonInfo
    \/ MoonIllumfrac

SpecIllum == Init /\ [][NextIllum]_vars

Proportion(x) ==
    ~IsNaN(x) /\ FGe(x, Zero) /\ FLe(x, [s |-> 0, m |-> <<0, 0, 0, 128>>, e |-> -52])

(* C29: Planet::illumfrac(d) of every planet other than the Earth and       *)
(* Moon::illumfrac(d) are numbers in [0, 1], never NaN                      *)
C29_IllumfracProportion ==
    op \in {"illumfrac", "Moon::illumfrac"} => Proportion(out.r)

(* the Moon's illuminated fraction is in [0, 1] *)
MoonIllumfracProportion ==
    op = "Moon::illumfrac" => Proportion(out.r)

(* the illuminated fraction of Mars and the planets beyond is in [0, 1] *)
OuterIllumfracProportion ==
    op = "illumfrac" /\ out.p > 2 => Proportion(out.r)

(* ---- what a call does besides returning ---- *)

(* C23: apart from Date::now, no operation of the core writes to stdout or  *)
(* stderr: Planet::locationcart, SegmentedPlanet::locationcart and          *)
(* misc::kepler return with nothing written                                 *)
C23_NothingWritten ==
    op \in {"locationcart", "kepler"} => out.stderr = <<>>

(* Planet::locationcart and misc::kepler write nothing *)
PlanetWritesNothing ==
    op \in {"locationcart", "kepler"} /\ out.kind # "SegmentedPlanet" => out.stderr = <<>>

====
